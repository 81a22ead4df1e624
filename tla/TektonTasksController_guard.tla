--------------------- MODULE TektonTasksController_guard ---------------------
(***************************************************************************)
(* Why a CR cannot leave before its resources do, and why two CRs never    *)
(* deploy at once.  Both rest on what the worker may believe of the copy   *)
(* it holds: as long as nobody else wrote the CR, the copy is the stored   *)
(* version; otherwise its next write is a conflict and changes nothing.    *)
(* Both hold only while no API call fails for a reason of its own: the     *)
(* error path of initialize marks a CR initialized that has no finalizer.  *)
(*                                                                         *)
(* The invariants speak of a set G of CRs: here all of them, in the proofs *)
(* about the start-up those that the init controller leaves alone.         *)
(***************************************************************************)
EXTENDS TektonTasksController_proofs, FiniteSetTheorems

DeployingPCs == {"list", "pauseStatus", "preStatus", "operands", "ready",
                 "progressing"}
CleanupPCs   == {"cleanupStatus", "cleanupOperands", "removeFinalizer",
                 "deletedStatus"}

\* An informer that is not behind holds the stored version.
InformerInv == \A c \in CRs : lag[c] = "none" => informer[c] = server[c]

\* A CR that counts as initialized has the finalizer.
InitializedInv(G) ==
    \A c \in G :
        /\ server[c] # Absent
        /\ ~server[c].deleting
        /\ server[c].status.phase # ""
        => HasOurFinalizer(server[c])

\* A current copy is the stored version.
CopyInv ==
    /\ pc # "multiple" /\ req \in current =>
          server[req] # Absent /\ informer[req] # Absent
    /\ pc \notin {"idle", "multiple", "errorStatus"} /\ req \in current =>
          inst = server[req]

\* What the worker knows at each of its steps.
StepInv(G) ==
    /\ pc \in DeployingPCs => ~inst.deleting /\ inst.status.phase # ""
    /\ pc \in CleanupPCs => inst.deleting
    /\ pc = "updateStatus" => HasOurFinalizer(inst)
    /\ pc = "errorStatus" /\ req \in current \cap G =>
          server[req].deleting \/ HasOurFinalizer(server[req])
    /\ pc = "operands" /\ req \in G => /\ server[req] # Absent
                                      /\ informer[req] # Absent
                                      /\ HasOurFinalizer(server[req])
    /\ pc = "removeFinalizer" => req \notin touched

\* Who may deploy: the one CR whose resources exist, if there is one.
OwnerInv(G) ==
    /\ \A c \in touched \cap G : informer[c] # Absent
    /\ pc = "preStatus" /\ req \in current => touched \cap G \subseteq {req}
    /\ pc = "operands" => touched \cap G \subseteq {req}

\* FinalizerGuards, of the CRs in G.
Guarded(G) ==
    \A c \in touched \cap G : server[c] # Absent /\ HasOurFinalizer(server[c])

GuardInv(G) ==
    /\ InformerInv
    /\ InitializedInv(G)
    /\ CopyInv
    /\ StepInv(G)
    /\ Guarded(G)


-----------------------------------------------------------------------------
(* Writes.                                                                 *)

USE DEF DeployingPCs, CleanupPCs

LEMMA StoreInformer ==
    ASSUME TypeOK, InformerInv, NEW c \in CRs, NEW cr, Store(c, cr)
    PROVE  InformerInv'
<1>1. lag' = [lag EXCEPT ![c] =
                 IF Stored(cr) = server[c] THEN @
                 ELSE IF PassesPredicate(server[c], Stored(cr)) THEN "event"
                 ELSE IF @ = "none" THEN "status" ELSE @]
      /\ server' = [server EXCEPT ![c] = Stored(cr)] /\ informer' = informer
  BY DEF Store
<1>2. ASSUME NEW d \in CRs, lag'[d] = "none"
      PROVE  informer'[d] = server'[d]
  <2>1. CASE d # c
    BY <1>1, <1>2, <2>1 DEF InformerInv, TypeOK
  <2>2. CASE d = c /\ Stored(cr) = server[c]
    BY <1>1, <1>2, <2>2 DEF InformerInv, TypeOK
  <2>3. CASE d = c /\ Stored(cr) # server[c]
    BY <1>1, <1>2, <2>3 DEF TypeOK
  <2> QED BY <2>1, <2>2, <2>3
<1> QED BY <1>2 DEF InformerInv

\* When no call fails for a reason of its own, the answer is the API server's
\* verdict: only a current copy is written, and a failed call changes nothing.
LEMMA WriteAnswer ==
    ASSUME MaxApiErrors = 0, TypeOK, InformerInv,
           NEW c \in CRs, NEW cr, NEW a, Write(c, cr, a)
    PROVE  /\ InformerInv'
           /\ informer' = informer
           /\ a \in {"OK", "NotFound", "Conflict", "Invalid"}
           /\ a # "OK" => server' = server
           /\ a = "OK" => /\ c \in current
                          /\ server[c] # Absent
                          /\ server' = [server EXCEPT ![c] = Stored(cr)]
           /\ a = "NotFound" => server[c] = Absent
           /\ a = "Invalid" => c \in current /\ server[c] # Absent /\ cr.deleting
<1>1. a = Verdict(c, cr)
  BY ConstantsAssumption DEF Write, Answers, TypeOK
<1>2. /\ a \in {"OK", "NotFound", "Conflict", "Invalid"}
      /\ a = "OK" => c \in current /\ server[c] # Absent
      /\ a = "NotFound" => server[c] = Absent
      /\ a = "Invalid" => c \in current /\ server[c] # Absent /\ cr.deleting
  BY <1>1 DEF Verdict
<1>3. CASE a = "OK"
  BY <1>2, <1>3, StoreInformer DEF Write, Store
<1>4. CASE a # "OK"
  <2>1. UNCHANGED api
    BY <1>2, <1>4 DEF Write
  <2> QED BY <1>2, <1>4, <2>1 DEF api, InformerInv
<1> QED BY <1>3, <1>4

-----------------------------------------------------------------------------
(* GuardInv, step by step.                                                 *)

LEMMA EndPassGuard ==
    ASSUME NEW G \in SUBSET CRs, TypeOK, NEW requeue \in BOOLEAN, EndPass(requeue),
           InformerInv', InitializedInv(G)', Guarded(G)'
    PROVE  GuardInv(G)'
BY DEF EndPass, GuardInv, CopyInv, StepInv

LEMMA ReturnGuard ==
    ASSUME NEW G \in SUBSET CRs, TypeOK, Return \/ ReturnError \/ ReturnRequeue,
           InformerInv', InitializedInv(G)', Guarded(G)'
    PROVE  GuardInv(G)'
BY EndPassGuard DEF Return, ReturnError, ReturnRequeue

\* Nothing that guards a CR changes while the API server does not.
LEMMA QuietGuard ==
    ASSUME NEW G \in SUBSET CRs, GuardInv(G), server' = server, touched' \subseteq touched
    PROVE  InitializedInv(G)' /\ Guarded(G)'
BY DEF GuardInv, InitializedInv, Guarded, HasOurFinalizer

\* A call that failed leads to the end of the pass or to the error report.
LEMMA HandleErrorGuard ==
    ASSUME NEW G \in SUBSET CRs,
           MaxApiErrors = 0, TypeOK, GuardInv(G), pc \notin {"idle", "multiple"},
           NEW cr, NEW sent, NEW a, a # "OK",
           Write(req, sent, a), handleError(cr, sent, a),
           a = "Invalid" => server[req].deleting,
           touched' = touched
    PROVE  GuardInv(G)'
<1>1. req \in CRs
  BY RequestType
<1>2. /\ InformerInv' /\ informer' = informer /\ server' = server
      /\ a = "NotFound" => server[req] = Absent
      /\ a \in {"NotFound", "Conflict", "Invalid"}
  BY <1>1, WriteAnswer DEF GuardInv
<1>3. InitializedInv(G)' /\ Guarded(G)'
  BY <1>2, QuietGuard
<1>4. CASE a = "Conflict"
  BY <1>2, <1>3, <1>4, ReturnGuard DEF handleError
<1>5. CASE a # "Conflict"
  <2>1. pc' = "errorStatus" /\ req' = req /\ current' \subseteq current
    BY <1>5 DEF handleError, Proceed, CurrentAfter
  <2>2. CopyInv'
    BY <1>2, <2>1 DEF GuardInv, CopyInv
  <2>3. a = "NotFound" => req \notin current
    BY <1>2 DEF GuardInv, CopyInv
  <2>4. StepInv(G)'
    BY <1>2, <1>5, <2>1, <2>3 DEF StepInv
  <2> QED BY <1>2, <1>3, <2>2, <2>4 DEF GuardInv
<1> QED BY <1>4, <1>5

\* A status that was written leaves the finalizers alone; it may mark the CR
\* initialized only if the CR is guarded or leaving.
LEMMA StatusWritten ==
    ASSUME NEW G \in SUBSET CRs, MaxApiErrors = 0, TypeOK, GuardInv(G), NEW c \in CRs,
           NEW cr, NEW st \in Status, Write(c, cr, "OK"),
           cr = [server[c] EXCEPT !.status = st],
           c \in G => \/ server[c].deleting
                      \/ HasOurFinalizer(server[c])
                      \/ st.phase = server[c].status.phase,
           touched' = touched
    PROVE  /\ InitializedInv(G)' /\ Guarded(G)' /\ InformerInv'
           /\ server'[c] \in {Absent, cr}
           /\ HasOurFinalizer(server[c]) => server'[c] = cr
           /\ \A d \in CRs \ {c} : server'[d] = server[d]
<1>1. /\ InformerInv' /\ server[c] # Absent
      /\ server' = [server EXCEPT ![c] = Stored(cr)]
  BY WriteAnswer DEF GuardInv
<1>2. server[c] \in CR
  BY <1>1 DEF TypeOK
<1>3. /\ cr.deleting = server[c].deleting /\ cr.fins = server[c].fins
      /\ cr.status = st
  BY <1>2 DEF CR
<1>4. /\ server'[c] = Stored(cr)
      /\ \A d \in CRs \ {c} : server'[d] = server[d]
  BY <1>1 DEF TypeOK
<1>5. server'[c] \in {Absent, cr}
  BY <1>4 DEF Stored
<1>6. HasOurFinalizer(server[c]) => server'[c] = cr /\ HasOurFinalizer(server'[c])
  BY <1>3, <1>4 DEF Stored, HasOurFinalizer
<1>7. cr # Absent
  BY <1>2, CRTypes, ConstantsAssumption
<1>8. Guarded(G)'
  BY <1>4, <1>6, <1>7 DEF Guarded, GuardInv, TypeOK
<1>9. InitializedInv(G)'
  <2> SUFFICES ASSUME NEW d \in G, server'[d] # Absent, ~server'[d].deleting,
                      server'[d].status.phase # ""
               PROVE  HasOurFinalizer(server'[d])
    BY DEF InitializedInv, HasOurFinalizer
  <2>1. CASE d # c
    BY <1>4, <2>1 DEF InitializedInv, GuardInv
  <2>2. CASE d = c
    BY <1>1, <1>3, <1>5, <1>6, <2>2 DEF InitializedInv, GuardInv
  <2> QED BY <2>1, <2>2
<1> QED BY <1>1, <1>4, <1>5, <1>6, <1>8, <1>9

LEMMA StartGuard ==
    ASSUME NEW G \in SUBSET CRs, TypeOK, GuardInv(G), NEW c \in CRs, Start(c)
    PROVE  GuardInv(G)'
<1>1. UNCHANGED <<server, informer, lag, touched>>
  BY DEF Start, api, ghosts
<1>2. InformerInv' /\ InitializedInv(G)' /\ Guarded(G)'
  BY <1>1, QuietGuard DEF GuardInv, InformerInv
<1>3. CASE informer[c] = Absent
  <2>1. UNCHANGED worker
    BY <1>3 DEF Start
  <2> QED BY <1>1, <1>2, <2>1
          DEF GuardInv, CopyInv, StepInv, worker, HasOurFinalizer
<1>4. CASE informer[c] # Absent
  <2>1. /\ pc' = FirstCall(inst') /\ req' = c /\ inst' = informer[c]
        /\ current' = IF lag[c] = "none" THEN {c} ELSE {}
    BY <1>4 DEF Start
  <2>2. inst' \in CR
    BY <1>4, <2>1 DEF TypeOK
  <2>3. /\ pc' \in {"update", "list", "cleanupStatus", "deletedStatus"}
        /\ pc' = "list" => ~inst'.deleting /\ inst'.status.phase # ""
        /\ pc' \in {"cleanupStatus", "deletedStatus"} => inst'.deleting
    BY <2>1, <2>2 DEF FirstCall, isInitialized, isBeingDeleted, CR, Status
  <2>4. StepInv(G)'
    BY <2>3 DEF StepInv
  <2>5. CopyInv'
    BY <1>1, <1>4, <2>1 DEF CopyInv, GuardInv, InformerInv
  <2> QED BY <1>2, <2>4, <2>5 DEF GuardInv
<1> QED BY <1>3, <1>4

\* The finalizer is written over the stored version or not at all.
LEMMA UpdateFinalizerGuard ==
    ASSUME NEW G \in SUBSET CRs,
           MaxApiErrors = 0, TypeOK, GuardInv(G), NEW a, UpdateFinalizer(a)
    PROVE  GuardInv(G)'
<1> DEFINE cr == WithFinalizer(inst)
<1>1. /\ pc = "update" /\ Write(req, cr, a) /\ touched' = touched
      /\ req \in CRs /\ inst \in CR
  BY RequestType DEF UpdateFinalizer, ghosts
<1>2. req \in current => inst = server[req]
  BY <1>1 DEF GuardInv, CopyInv
<1>3. cr.deleting = inst.deleting /\ cr.status = inst.status
      /\ HasOurFinalizer(cr) /\ cr \in CR
  <2>1. cr \in CR /\ cr.deleting = inst.deleting /\ cr.status = inst.status
    BY <1>1, FinalizerTypes DEF WithFinalizer, CR
  <2>2. "new" \in cr.fins
    BY <1>1 DEF WithFinalizer, CR
  <2> QED BY <2>1, <2>2 DEF HasOurFinalizer, Ours
<1>4. CASE a = "OK"
  <2>1. /\ req \in current /\ server[req] # Absent /\ InformerInv'
        /\ informer' = informer
        /\ server' = [server EXCEPT ![req] = Stored(cr)]
    BY <1>1, <1>4, WriteAnswer DEF GuardInv
  <2>2. Stored(cr) = cr /\ cr # Absent
    BY <1>3, ConstantsAssumption DEF Stored, HasOurFinalizer
  <2>3. server'[req] = cr /\ \A d \in CRs \ {req} : server'[d] = server[d]
    BY <1>1, <2>1, <2>2 DEF TypeOK
  <2>4. Guarded(G)'
    BY <1>1, <1>3, <2>2, <2>3
       DEF Guarded, GuardInv, TypeOK, HasOurFinalizer
  <2>5. InitializedInv(G)'
    BY <1>3, <2>3 DEF InitializedInv, GuardInv, HasOurFinalizer
  <2>6. /\ pc' = "updateStatus" /\ req' = req /\ inst' = cr
        /\ current' \subseteq current
    BY <1>4 DEF UpdateFinalizer, Proceed, CurrentAfter
  <2>7. StepInv(G)'
    BY <1>3, <2>6 DEF StepInv, HasOurFinalizer
  <2>8. CopyInv'
    BY <1>1, <2>1, <2>2, <2>3, <2>6 DEF CopyInv, GuardInv
  <2> QED BY <2>1, <2>4, <2>5, <2>7, <2>8 DEF GuardInv
<1>5. CASE a # "OK"
  <2>1. a = "Invalid" => req \in current /\ cr.deleting
    BY <1>1, WriteAnswer DEF GuardInv
  <2>2. a = "Invalid" => server[req].deleting
    BY <1>2, <1>3, <2>1
  <2>3. handleError(cr, cr, a)
    BY <1>5 DEF UpdateFinalizer
  <2> QED BY <1>1, <1>5, <2>2, <2>3, HandleErrorGuard
<1> QED BY <1>4, <1>5

\* What Status().Update sends over a current copy, and when it is refused.
LEMMA StatusSent ==
    ASSUME NEW G \in SUBSET CRs,
           MaxApiErrors = 0, TypeOK, GuardInv(G), pc \notin {"idle", "multiple"},
           NEW st \in Status, NEW a, Write(req, WithStatus(req, st), a)
    PROVE  /\ a = "OK" => /\ req \in current /\ server[req] # Absent
                          /\ server[req] \in CR
                          /\ informer' = informer /\ informer[req] # Absent
                          /\ WithStatus(req, st) = [server[req] EXCEPT !.status = st]
           /\ a = "Invalid" => server[req].deleting
           /\ a # "OK" => server' = server
           /\ informer' = informer
           /\ InformerInv'
<1>1. req \in CRs /\ inst \in CR
  BY RequestType
<1>2. server[req] # Absent =>
        /\ server[req] \in CR
        /\ WithStatus(req, st) = [server[req] EXCEPT !.status = st]
        /\ WithStatus(req, st).deleting = server[req].deleting
  BY <1>1 DEF WithStatus, TypeOK, CR
<1> QED BY <1>1, <1>2, WriteAnswer DEF GuardInv, CopyInv

\* A status write that ends the pass or reports an error.
LEMMA StatusCallGuard ==
    ASSUME NEW G \in SUBSET CRs,
           MaxApiErrors = 0, TypeOK, GuardInv(G), pc \notin {"idle", "multiple"},
           NEW st \in Status, NEW a, Write(req, WithStatus(req, st), a),
           req \in current \cap G => \/ server[req].deleting
                                   \/ HasOurFinalizer(server[req])
                                   \/ st.phase = server[req].status.phase,
           touched' = touched
    PROVE  InformerInv' /\ InitializedInv(G)' /\ Guarded(G)'
<1>1. req \in CRs
  BY RequestType
<1>2. CASE a = "OK"
  BY <1>1, <1>2, StatusSent, StatusWritten
<1>3. CASE a # "OK"
  BY <1>3, StatusSent, QuietGuard
<1> QED BY <1>2, <1>3

\* A status write after which the pass goes on with its copy.
LEMMA StatusProceedGuard ==
    ASSUME NEW G \in SUBSET CRs,
           MaxApiErrors = 0, TypeOK, GuardInv(G), pc \notin {"idle", "multiple"},
           NEW st \in Status, Write(req, WithStatus(req, st), "OK"),
           inst = server[req],
           req \in G => server[req].deleting \/ HasOurFinalizer(server[req]),
           touched' = touched,
           NEW next \in {"operands", "ready", "cleanupOperands"},
           next \in DeployingPCs => /\ ~inst.deleting
                                    /\ st.phase # ""
                                    /\ (req \in G => HasOurFinalizer(inst)),
           next \in CleanupPCs => inst.deleting,
           Proceed(next, [inst EXCEPT !.status = st], WithStatus(req, st), "OK")
    PROVE  GuardInv(G)'
<1> DEFINE cr == WithStatus(req, st)
<1>1. req \in CRs /\ inst \in CR
  BY RequestType
<1>2. /\ req \in current /\ informer' = informer /\ informer[req] # Absent
      /\ cr = [inst EXCEPT !.status = st]
  BY StatusSent
<1>3. cr \in CR /\ cr.deleting = inst.deleting /\ cr.fins = inst.fins
      /\ cr.status = st
  BY <1>1, <1>2 DEF CR
<1>4. /\ InitializedInv(G)' /\ Guarded(G)' /\ InformerInv'
      /\ server'[req] \in {Absent, cr}
      /\ HasOurFinalizer(server[req]) => server'[req] = cr
  BY <1>1, <1>2, StatusWritten
<1>5. server'[req] = Stored(cr) /\ cr # Absent
  <2>1. server' = [server EXCEPT ![req] = Stored(cr)]
    BY <1>1, WriteAnswer DEF GuardInv
  <2> QED BY <1>1, <1>3, <2>1, ConstantsAssumption DEF TypeOK
<1>6. /\ pc' = next /\ req' = req /\ inst' = cr
      /\ current' = IF Stored(cr) = Absent THEN current \ {req} ELSE current
  BY <1>2 DEF Proceed, CurrentAfter
<1>7. CopyInv'
  BY <1>2, <1>4, <1>5, <1>6 DEF CopyInv
<1>8. next \in DeployingPCs /\ req \in G => server'[req] = cr /\ HasOurFinalizer(cr)
  BY <1>3, <1>4 DEF HasOurFinalizer
<1>9. StepInv(G)'
  BY <1>2, <1>3, <1>5, <1>6, <1>8 DEF StepInv, HasOurFinalizer
<1> QED BY <1>4, <1>7, <1>9 DEF GuardInv

\* A CR that is being deployed from a current copy has the finalizer.
LEMMA DeployingGuarded ==
    ASSUME NEW G \in SUBSET CRs, TypeOK, GuardInv(G), pc \in DeployingPCs, req \in current
    PROVE  /\ server[req] = inst
           /\ req \in G => HasOurFinalizer(server[req])
BY RequestType DEF GuardInv, CopyInv, StepInv, InitializedInv

\* The finalizers are removed from a CR whose resources are gone.
LEMMA RemoveFinalizersGuard ==
    ASSUME NEW G \in SUBSET CRs,
           MaxApiErrors = 0, TypeOK, GuardInv(G), NEW a, RemoveFinalizers(a)
    PROVE  GuardInv(G)'
<1> DEFINE cr == WithoutFinalizers(inst)
<1>1. /\ pc = "removeFinalizer" /\ Write(req, cr, a) /\ touched' = touched
      /\ req \in CRs /\ inst \in CR /\ inst.deleting /\ req \notin touched
  BY RequestType DEF RemoveFinalizers, ghosts, GuardInv, StepInv
<1>2. cr \in CR /\ cr.deleting
  BY <1>1, FinalizerTypes DEF WithoutFinalizers, CR
<1>3. CASE a = "OK"
  <2>1. /\ InformerInv' /\ informer' = informer /\ req \in current
        /\ server' = [server EXCEPT ![req] = Stored(cr)]
    BY <1>1, <1>3, WriteAnswer DEF GuardInv
  <2>2. /\ server'[req] = Stored(cr)
        /\ \A d \in CRs \ {req} : server'[d] = server[d]
    BY <1>1, <2>1 DEF TypeOK
  <2>3. Guarded(G)'
    BY <1>1, <2>2 DEF Guarded, GuardInv, TypeOK, HasOurFinalizer
  <2>4. InitializedInv(G)'
    BY <1>2, <2>2 DEF InitializedInv, GuardInv, Stored, HasOurFinalizer
  <2>5. /\ pc' = "deletedStatus" /\ req' = req /\ inst' = cr
        /\ current' = IF Stored(cr) = Absent THEN current \ {req} ELSE current
    BY <1>3 DEF RemoveFinalizers, Proceed, CurrentAfter
  <2>6. CopyInv'
    BY <1>1, <2>1, <2>2, <2>5 DEF CopyInv, GuardInv, Stored
  <2>7. StepInv(G)'
    BY <1>2, <2>5 DEF StepInv
  <2> QED BY <2>1, <2>3, <2>4, <2>6, <2>7 DEF GuardInv
<1>4. CASE a # "OK"
  <2>1. InformerInv' /\ server' = server
    BY <1>1, <1>4, WriteAnswer DEF GuardInv
  <2>2. InitializedInv(G)' /\ Guarded(G)'
    BY <1>1, <2>1, QuietGuard
  <2> QED BY <1>4, <2>1, <2>2, ReturnGuard DEF RemoveFinalizers
<1> QED BY <1>3, <1>4

\* The conditions of several CRs: no phase and no finalizer changes.
LEMMA MultipleGuard ==
    ASSUME NEW G \in SUBSET CRs,
           MaxApiErrors = 0, TypeOK, GuardInv(G), NEW c \in CRs, NEW a,
           SetStatusMultipleCRs(c, a)
    PROVE  GuardInv(G)'
<1> DEFINE cr == IF server[c] = Absent THEN informer[c]
                 ELSE [server[c] EXCEPT !.status = multipleStatus(server[c])]
<1>1. pc = "multiple" /\ Write(c, cr, a) /\ touched' = touched
  BY DEF SetStatusMultipleCRs, ghosts
<1>2. InformerInv' /\ InitializedInv(G)' /\ Guarded(G)'
  <2>1. CASE a = "OK"
    <3>1. server[c] # Absent /\ server[c] \in CR
      BY <1>1, <2>1, WriteAnswer DEF GuardInv, TypeOK
    <3>2. /\ multipleStatus(server[c]) \in Status
          /\ multipleStatus(server[c]).phase = server[c].status.phase
      BY <3>1, StatusTypes DEF multipleStatus, CR, Status
    <3> QED BY <1>1, <2>1, <3>1, <3>2, StatusWritten
  <2>2. CASE a # "OK"
    BY <1>1, <2>2, WriteAnswer, QuietGuard DEF GuardInv
  <2> QED BY <2>1, <2>2
<1>3. CASE Return \/ ReturnError
  BY <1>2, <1>3, ReturnGuard
<1>4. CASE pc' = pc
  BY <1>1, <1>2, <1>4 DEF GuardInv, CopyInv, StepInv
<1> QED BY <1>3, <1>4 DEF SetStatusMultipleCRs

\* One case per API call of the pass.
LEMMA ApiCallGuard ==
    ASSUME NEW G \in SUBSET CRs, MaxApiErrors = 0, TypeOK, GuardInv(G), ApiCall
    PROVE  GuardInv(G)'
<1> PICK a \in AnswerSet :
        \/ UpdateFinalizer(a) \/ UpdatePhase(a) \/ ReportError(a)
        \/ CleanupStatus(a) \/ RemoveFinalizers(a) \/ DeletedStatus(a)
        \/ PauseStatus(a) \/ PreUpdateStatus(a) \/ UpdateStatus(a)
        \/ \E c \in CRs : SetStatusMultipleCRs(c, a)
  BY DEF ApiCall
<1>1. CASE UpdateFinalizer(a)
  BY <1>1, UpdateFinalizerGuard
<1>2. CASE UpdatePhase(a)
  <2> DEFINE st == DeployingStatus(inst)
  <2>1. /\ pc = "updateStatus" /\ Write(req, WithStatus(req, st), a)
        /\ touched' = touched /\ st \in Status
    BY <1>2, RequestType, StatusTypes DEF UpdatePhase, ghosts
  <2>2. req \in current => HasOurFinalizer(server[req])
    BY <2>1 DEF GuardInv, CopyInv, StepInv
  <2>3. CASE a = "OK"
    <3>1. InformerInv' /\ InitializedInv(G)' /\ Guarded(G)'
      BY <2>1, <2>2, StatusCallGuard
    <3> QED BY <1>2, <2>3, <3>1, ReturnGuard DEF UpdatePhase
  <2>4. CASE a # "OK"
    <3>1. handleError([inst EXCEPT !.status = st], WithStatus(req, st), a)
      BY <1>2, <2>4 DEF UpdatePhase
    <3> QED BY <2>1, <2>4, <3>1, StatusSent, HandleErrorGuard
  <2> QED BY <2>3, <2>4
<1>3. CASE ReportError(a)
  <2> DEFINE st == errorStatus(inst)
  <2>1. /\ pc = "errorStatus" /\ Write(req, WithStatus(req, st), a)
        /\ touched' = touched /\ st \in Status /\ ReturnError
    BY <1>3, RequestType, StatusTypes DEF ReportError, ghosts
  <2>2. req \in current \cap G => server[req].deleting \/ HasOurFinalizer(server[req])
    BY <2>1 DEF GuardInv, StepInv
  <2>3. InformerInv' /\ InitializedInv(G)' /\ Guarded(G)'
    BY <2>1, <2>2, StatusCallGuard
  <2> QED BY <2>1, <2>3, ReturnGuard
<1>4. CASE CleanupStatus(a)
  <2> DEFINE st == cleanupStatus(inst)
  <2>1. /\ pc = "cleanupStatus" /\ Write(req, WithStatus(req, st), a)
        /\ touched' = touched /\ st \in Status /\ inst.deleting
    BY <1>4, RequestType, StatusTypes DEF CleanupStatus, ghosts, GuardInv, StepInv
  <2>2. req \in current => inst = server[req]
    BY <2>1 DEF GuardInv, CopyInv
  <2>3. CASE a = "OK"
    <3>1. Proceed("cleanupOperands", [inst EXCEPT !.status = st],
                  WithStatus(req, st), "OK")
      BY <1>4, <2>3 DEF CleanupStatus
    <3>2. inst = server[req]
      BY <2>1, <2>2, <2>3, StatusSent
    <3> QED BY <2>1, <2>3, <3>1, <3>2, StatusProceedGuard
  <2>4. CASE a # "OK"
    <3>1. InformerInv' /\ InitializedInv(G)' /\ Guarded(G)'
      BY <2>1, <2>2, StatusCallGuard
    <3> QED BY <1>4, <2>4, <3>1, ReturnGuard DEF CleanupStatus
  <2> QED BY <2>3, <2>4
<1>6. CASE DeletedStatus(a)
  <2> DEFINE st == deletedStatus(inst)
  <2>1. /\ pc = "deletedStatus" /\ Write(req, WithStatus(req, st), a)
        /\ touched' = touched /\ st \in Status /\ inst.deleting
    BY <1>6, RequestType, StatusTypes DEF DeletedStatus, ghosts, GuardInv, StepInv
  <2>2. req \in current => server[req].deleting
    BY <2>1 DEF GuardInv, CopyInv
  <2>3. InformerInv' /\ InitializedInv(G)' /\ Guarded(G)'
    BY <2>1, <2>2, StatusCallGuard
  <2> QED BY <1>6, <2>3, EndPassGuard, ReturnGuard DEF DeletedStatus
<1>7. CASE PauseStatus(a)
  <2> DEFINE st == pausedStatus(inst)
  <2>1. /\ pc = "pauseStatus" /\ Write(req, WithStatus(req, st), a)
        /\ touched' = touched /\ st \in Status
    BY <1>7, RequestType, StatusTypes DEF PauseStatus, ghosts
  <2>2. req \in current \cap G => HasOurFinalizer(server[req])
    BY <2>1, DeployingGuarded
  <2>3. InformerInv' /\ InitializedInv(G)' /\ Guarded(G)'
    BY <2>1, <2>2, StatusCallGuard
  <2> QED BY <1>7, <2>3, ReturnGuard DEF PauseStatus
<1>8. CASE PreUpdateStatus(a)
  <2> DEFINE st == preUpdateStatus(inst)
             copy == [inst EXCEPT !.status = st]
  <2>1. /\ pc = "preStatus" /\ Write(req, WithStatus(req, st), a)
        /\ touched' = touched /\ st \in Status /\ ~inst.deleting
        /\ st.phase # ""
    BY <1>8, RequestType, StatusTypes
       DEF PreUpdateStatus, ghosts, GuardInv, StepInv, preUpdateStatus
  <2>2. req \in current => /\ server[req] = inst
                           /\ req \in G => HasOurFinalizer(server[req])
    BY <2>1, DeployingGuarded
  <2>3. CASE a = "OK"
    <3>1. PICK next \in {"operands", "ready"} :
              Proceed(next, copy, WithStatus(req, st), "OK")
      BY <1>8, <2>3 DEF PreUpdateStatus
    <3>2. req \in current
      BY <2>1, <2>3, StatusSent
    <3> QED BY <2>1, <2>2, <2>3, <3>1, <3>2, StatusProceedGuard
  <2>4. CASE a # "OK"
    <3>1. handleError(copy, WithStatus(req, st), a)
      BY <1>8, <2>4 DEF PreUpdateStatus
    <3> QED BY <2>1, <2>4, <3>1, StatusSent, HandleErrorGuard
  <2> QED BY <2>3, <2>4
<1>9. CASE UpdateStatus(a)
  <2> DEFINE st == updateStatus(inst, pc = "ready")
  <2>1. /\ pc \in {"ready", "progressing"} /\ Write(req, WithStatus(req, st), a)
        /\ touched' = touched /\ st \in Status
    BY <1>9, RequestType, StatusTypes DEF UpdateStatus, ghosts
  <2>2. req \in current \cap G => HasOurFinalizer(server[req])
    BY <2>1, DeployingGuarded
  <2>3. CASE a = "OK"
    <3>1. InformerInv' /\ InitializedInv(G)' /\ Guarded(G)'
      BY <2>1, <2>2, StatusCallGuard
    <3> QED BY <1>9, <2>3, <3>1, EndPassGuard DEF UpdateStatus
  <2>4. CASE a # "OK"
    <3>1. handleError([inst EXCEPT !.status = st], WithStatus(req, st), a)
      BY <1>9, <2>4 DEF UpdateStatus
    <3> QED BY <2>1, <2>4, <3>1, StatusSent, HandleErrorGuard
  <2> QED BY <2>3, <2>4
<1> QED BY <1>1, <1>2, <1>3, <1>4, <1>6, <1>7, <1>8, <1>9,
           RemoveFinalizersGuard, MultipleGuard

\* The outcomes of the operand loops.
LEMMA OperandCallGuard ==
    ASSUME NEW G \in SUBSET CRs, TypeOK, GuardInv(G), OperandCall
    PROVE  GuardInv(G)'
<1>1. /\ UNCHANGED <<server, informer, lag>>
      /\ req \in CRs /\ inst \in CR
      /\ pc \in {"operands", "cleanupOperands"}
  BY RequestType
     DEF OperandCall, CleanupDone, CleanupPending, CleanupError,
         OperandsReady, OperandsProgressing, OperandsError, OperandsConflict, api
<1>2. pc = "operands" /\ req \in G =>
          HasOurFinalizer(server[req]) /\ server[req] # Absent
  BY DEF GuardInv, StepInv
<1>3. touched' \subseteq touched \cup (IF pc = "operands" THEN {req} ELSE {})
  BY DEF OperandCall, CleanupDone, CleanupPending, CleanupError,
         OperandsReady, OperandsProgressing, OperandsError, OperandsConflict,
         OperandsReconciled, ghosts
<1>4. InformerInv' /\ InitializedInv(G)' /\ Guarded(G)'
  BY <1>1, <1>2, <1>3
     DEF GuardInv, InformerInv, InitializedInv, Guarded, HasOurFinalizer
<1>5. CASE CleanupPending \/ CleanupError \/ OperandsConflict
  BY <1>4, <1>5, EndPassGuard, ReturnGuard
     DEF CleanupPending, CleanupError, OperandsConflict
<1>6. CASE CleanupDone
  <2>1. /\ pc = "cleanupOperands" /\ pc' = "removeFinalizer"
        /\ UNCHANGED <<req, inst, current>> /\ touched' = touched \ {req}
    BY <1>6 DEF CleanupDone
  <2>2. CopyInv' /\ StepInv(G)'
    BY <1>1, <2>1 DEF GuardInv, CopyInv, StepInv
  <2> QED BY <1>4, <2>2 DEF GuardInv
<1>7. CASE OperandsReady \/ OperandsProgressing \/ OperandsError
  <2>1. /\ pc = "operands" /\ pc' \in {"ready", "progressing", "errorStatus"}
        /\ UNCHANGED <<req, inst, current>>
    BY <1>7 DEF OperandsReady, OperandsProgressing, OperandsError,
                OperandsReconciled
  <2>2. CopyInv' /\ StepInv(G)'
    BY <1>1, <1>2, <2>1 DEF GuardInv, CopyInv, StepInv, HasOurFinalizer
  <2> QED BY <1>4, <2>2 DEF GuardInv
<1> QED BY <1>5, <1>6, <1>7 DEF OperandCall

LEMMA ListCRsGuard ==
    ASSUME NEW G \in SUBSET CRs, TypeOK, GuardInv(G), ListCRs
    PROVE  GuardInv(G)'
<1>1. UNCHANGED <<server, informer, lag, touched>> /\ pc = "list"
  BY DEF ListCRs, api, ghosts
<1>2. InformerInv' /\ InitializedInv(G)' /\ Guarded(G)'
  BY <1>1, QuietGuard DEF GuardInv, InformerInv
<1>3. CASE pc' = "multiple"
  BY <1>1, <1>2, <1>3 DEF GuardInv, CopyInv, StepInv
<1>4. CASE Return
  BY <1>2, <1>4, ReturnGuard
<1>5. CASE /\ pc' \in {"pauseStatus", "preStatus"}
           /\ UNCHANGED <<req, inst, current>>
  BY <1>1, <1>2, <1>5 DEF GuardInv, CopyInv, StepInv
<1> QED BY <1>3, <1>4, <1>5 DEF ListCRs

\* A user's write makes the worker's copy obsolete and keeps our finalizers.
LEMMA UserWritesGuard ==
    ASSUME NEW G \in SUBSET CRs,
           TypeOK, GuardInv(G), NEW c \in CRs, NEW cr \in CR, UserWrites(c, cr),
           server[c] # Absent =>
               (HasOurFinalizer(server[c]) => HasOurFinalizer(cr)),
           c \in G /\ ~cr.deleting /\ cr.status.phase # "" => HasOurFinalizer(cr)
    PROVE  GuardInv(G)'
<1>1. /\ server'[c] = Stored(cr)
      /\ \A d \in CRs \ {c} : server'[d] = server[d]
      /\ informer' = informer
      /\ UNCHANGED <<pc, req, inst, touched>> /\ current' = current \ {c}
  BY DEF UserWrites, Store, TypeOK
<1>2. InformerInv'
  BY StoreInformer DEF UserWrites, GuardInv
<1>3. HasOurFinalizer(cr) => Stored(cr) = cr /\ cr # Absent
  BY ConstantsAssumption DEF HasOurFinalizer, Stored
<1>4. Stored(cr) \in {Absent, cr}
  BY DEF Stored
<1>5. Guarded(G)'
  BY <1>1, <1>3 DEF GuardInv, Guarded, TypeOK, HasOurFinalizer
<1>6. InitializedInv(G)'
  BY <1>1, <1>4 DEF GuardInv, InitializedInv, HasOurFinalizer
<1>7. CopyInv'
  BY <1>1 DEF GuardInv, CopyInv, TypeOK
<1>8. StepInv(G)'
  <2>1. req \in CRs /\ req # c => server'[req] = server[req]
    BY <1>1
  <2>2. pc \in PCs \ {"idle"} => req \in CRs
    BY RequestType
  <2>3. pc = "operands" /\ req \in G => /\ server'[req] # Absent
                                       /\ HasOurFinalizer(server'[req])
    BY <1>1, <1>3, <2>1, <2>2 DEF GuardInv, StepInv, PCs
  <2>4. pc = "errorStatus" /\ req \in current' \cap G =>
            server'[req].deleting \/ HasOurFinalizer(server'[req])
    BY <1>1, <2>1, <2>2 DEF GuardInv, StepInv, PCs
  <2> QED BY <1>1, <2>3, <2>4 DEF GuardInv, StepInv, HasOurFinalizer
<1> QED BY <1>2, <1>5, <1>6, <1>7, <1>8 DEF GuardInv

LEMMA UserGuard ==
    ASSUME NEW G \in SUBSET CRs, TypeOK, GuardInv(G), User
    PROVE  GuardInv(G)'
<1>1. PICK c \in CRs, cr \in CR :
        /\ UserWrites(c, cr)
        /\ \/ /\ server[c] = Absent
              /\ cr.status.phase = ""
              /\ ~cr.deleting
           \/ /\ server[c] \in CR
              /\ cr.fins \cap Ours = server[c].fins \cap Ours
              /\ cr.status = server[c].status
              /\ server[c].deleting => cr.deleting
  BY UserStep
<1>2. CASE server[c] = Absent
  BY <1>1, <1>2, UserWritesGuard, ConstantsAssumption
<1>3. CASE server[c] # Absent
  <2>1. HasOurFinalizer(server[c]) <=> HasOurFinalizer(cr)
    BY <1>1, <1>3 DEF HasOurFinalizer
  <2> QED BY <1>1, <1>3, <2>1, UserWritesGuard DEF GuardInv, InitializedInv
<1> QED BY <1>2, <1>3

LEMMA SurroundingsGuard ==
    ASSUME NEW G \in SUBSET CRs, TypeOK, GuardInv(G), Surroundings
    PROVE  GuardInv(G)'
<1>1. ASSUME NEW c \in CRs, Deliver(c)
      PROVE  GuardInv(G)'
  <2>1. /\ UNCHANGED <<server, pc, req, inst, current, touched>>
        /\ informer' = [informer EXCEPT ![c] = server[c]]
        /\ lag' = [lag EXCEPT ![c] = "none"]
    BY <1>1 DEF Deliver, worker, ghosts
  <2>2. InformerInv'
    BY <2>1 DEF GuardInv, InformerInv, TypeOK
  <2>3. InitializedInv(G)' /\ Guarded(G)'
    BY <2>1, QuietGuard
  <2>4. \A d \in CRs : informer'[d] = IF d = c THEN server[c] ELSE informer[d]
    BY <2>1 DEF TypeOK
  <2>5. CopyInv' /\ StepInv(G)'
    BY <2>1, <2>4, RequestType DEF GuardInv, CopyInv, StepInv, HasOurFinalizer, TypeOK
  <2> QED BY <2>2, <2>3, <2>5 DEF GuardInv
<1>2. ASSUME NEW c \in CRs,
             BackOffExpires(c) \/ ResourceGone(c) \/ ResourceChanged(c)
      PROVE  GuardInv(G)'
  <2>1. UNCHANGED <<server, informer, lag, pc, req, inst, current, touched>>
    BY <1>2 DEF BackOffExpires, ResourceGone, ResourceChanged, api, worker, ghosts
  <2>2. InformerInv' /\ InitializedInv(G)' /\ Guarded(G)'
    BY <2>1, QuietGuard DEF GuardInv, InformerInv
  <2>3. CopyInv' /\ StepInv(G)'
    BY <2>1 DEF GuardInv, CopyInv, StepInv, HasOurFinalizer
  <2> QED BY <2>2, <2>3 DEF GuardInv
<1>3. CASE Restart
  <2>1. /\ pc' = "idle" /\ current' = {} /\ informer' = server
        /\ UNCHANGED <<server, touched>>
    BY <1>3 DEF Restart, Reboot, ghosts
  <2>2. InformerInv' /\ InitializedInv(G)' /\ Guarded(G)'
    BY <2>1, QuietGuard DEF InformerInv
  <2> QED BY <2>1, <2>2 DEF GuardInv, CopyInv, StepInv
<1> QED BY <1>1, <1>2, <1>3, UserGuard DEF Surroundings, Watches

LEMMA InitGuard ==
    ASSUME NEW G \in SUBSET CRs, Init
    PROVE  GuardInv(G)
<1>1. PICK spec \in Deploys :
         server = [c \in CRs |-> IF c \in Legacy THEN LegacyCR(spec) ELSE Absent]
  BY DEF Init
<1>2. HasOurFinalizer(LegacyCR(spec))
  BY DEF HasOurFinalizer, LegacyCR, Ours
<1>3. LegacyCR(spec) # Absent
  BY LegacyType, ConstantsAssumption
<1>4. InformerInv /\ CopyInv /\ StepInv(G)
  BY DEF Init, InformerInv, CopyInv, StepInv
<1>5. InitializedInv(G) /\ Guarded(G)
  BY <1>1, <1>2, <1>3, ConstantsAssumption
     DEF Init, InitializedInv, Guarded, HasOurFinalizer
<1> QED BY <1>4, <1>5 DEF GuardInv

LEMMA NextGuard ==
    ASSUME NEW G \in SUBSET CRs, MaxApiErrors = 0, TypeOK, GuardInv(G), [Next]_vars
    PROVE  GuardInv(G)'
<1>1. CASE \E c \in CRs : Start(c)
  BY <1>1, StartGuard
<1>2. CASE Worker
  BY <1>2, ListCRsGuard, ApiCallGuard, OperandCallGuard DEF Worker
<1>3. CASE Surroundings
  BY <1>3, SurroundingsGuard
<1>4. CASE UNCHANGED vars
  <2>1. UNCHANGED <<server, informer, lag, pc, req, inst, current, touched>>
    BY <1>4 DEF vars, api, worker, ghosts
  <2> QED BY <2>1 DEF GuardInv, InformerInv, InitializedInv, CopyInv, StepInv,
                      Guarded, HasOurFinalizer
<1> QED BY <1>1, <1>2, <1>3, <1>4 DEF Next

\* As long as only conflicts and missing objects make API calls fail, a CR
\* whose resources may exist is stored and holds a finalizer of the operator:
\* for every number of CRs, specs, writes of users and crashes.
THEOREM FinalizerGuardsAlways ==
    ASSUME MaxApiErrors = 0
    PROVE  Spec => []FinalizerGuards
<1>1. Init => TypeOK /\ GuardInv(CRs)
  BY InitType, InitGuard
<1>2. TypeOK /\ GuardInv(CRs) /\ [Next]_vars => (TypeOK /\ GuardInv(CRs))'
  BY NextType, NextGuard
<1>3. TypeOK /\ GuardInv(CRs) => FinalizerGuards
  BY DEF GuardInv, Guarded, FinalizerGuards, TypeOK
<1> QED BY <1>1, <1>2, <1>3, PTL DEF Spec

-----------------------------------------------------------------------------
(* One owner at a time.                                                    *)

\* A list that is not "multiple" and shows c shows nothing else.
LEMMA SoleListed ==
    ASSUME ~MultipleCRs(Listed), NEW c \in Listed
    PROVE  Listed \subseteq {c}
<1>1. IsFiniteSet(Listed)
  BY FS_Subset, ConstantsAssumption DEF Listed
<1>2. Cardinality(Listed) \in Nat /\ Cardinality(Listed) <= 1
  BY <1>1, FS_CardinalityType DEF MultipleCRs
<1>3. IsFiniteSet({c}) /\ Cardinality({c}) = 1
  BY FS_Singleton
<1>4. {c} \in SUBSET Listed
  OBVIOUS
<1>5. Cardinality({c}) <= Cardinality(Listed)
      /\ (Cardinality(Listed) = Cardinality({c}) => Listed = {c})
  BY <1>1, <1>4, FS_Subset
<1> QED BY <1>2, <1>3, <1>5

\* Everything but the steps below keeps the resources, the informer's view of
\* them and the worker's place.
LEMMA OwnerQuiet ==
    ASSUME NEW G \in SUBSET CRs, OwnerInv(G), informer' = informer, touched' = touched,
           \/ pc' \notin {"preStatus", "operands"}
           \/ pc' = pc /\ req' = req /\ current' \subseteq current
    PROVE  OwnerInv(G)'
BY DEF OwnerInv

LEMMA OwnerStart ==
    ASSUME NEW G \in SUBSET CRs, TypeOK, GuardInv(G), OwnerInv(G), NEW c \in CRs, Start(c)
    PROVE  OwnerInv(G)'
<1>1. informer' = informer /\ touched' = touched /\ pc = "idle"
  BY DEF Start, api, ghosts
<1>2. pc' \in {"idle", "update", "list", "cleanupStatus", "deletedStatus"}
  BY <1>1 DEF Start, FirstCall, worker, isInitialized
<1> QED BY <1>1, <1>2, OwnerQuiet

\* The list is what keeps a second CR from deploying.
LEMMA OwnerList ==
    ASSUME NEW G \in SUBSET CRs, TypeOK, GuardInv(G), OwnerInv(G), ListCRs
    PROVE  OwnerInv(G)'
<1>1. informer' = informer /\ touched' = touched /\ pc = "list"
  BY DEF ListCRs, api, ghosts
<1>2. CASE pc' # "preStatus"
  <2>1. pc' # "operands"
    BY <1>1 DEF ListCRs, Return, EndPass
  <2> QED BY <1>1, <1>2, <2>1, OwnerQuiet
<1>3. CASE pc' = "preStatus"
  <2>1. ~MultipleCRs(Listed) /\ req' = req /\ current' = current
    BY <1>3 DEF ListCRs, Return, EndPass
  <2>2. touched \cap G \subseteq Listed
    BY DEF OwnerInv, Listed, TypeOK
  <2>3. ASSUME req \in current PROVE touched \cap G \subseteq {req}
    <3>1. req \in Listed
      BY <1>1, <2>3, RequestType DEF GuardInv, CopyInv, Listed
    <3> QED BY <2>1, <2>2, <3>1, SoleListed
  <2> QED BY <1>1, <1>3, <2>1, <2>3 DEF OwnerInv
<1> QED BY <1>2, <1>3

LEMMA OwnerApiCall ==
    ASSUME NEW G \in SUBSET CRs,
           MaxApiErrors = 0, TypeOK, GuardInv(G), OwnerInv(G), ApiCall
    PROVE  OwnerInv(G)'
<1> PICK a \in AnswerSet :
        \/ UpdateFinalizer(a) \/ UpdatePhase(a) \/ ReportError(a)
        \/ CleanupStatus(a) \/ RemoveFinalizers(a) \/ DeletedStatus(a)
        \/ PauseStatus(a) \/ PreUpdateStatus(a) \/ UpdateStatus(a)
        \/ \E c \in CRs : SetStatusMultipleCRs(c, a)
  BY DEF ApiCall
<1>1. touched' = touched
  BY DEF UpdateFinalizer, UpdatePhase, ReportError, CleanupStatus,
         RemoveFinalizers, DeletedStatus, PauseStatus, PreUpdateStatus,
         UpdateStatus, SetStatusMultipleCRs, ghosts
<1>2. informer' = informer
  BY DEF UpdateFinalizer, UpdatePhase, ReportError, CleanupStatus,
         RemoveFinalizers, DeletedStatus, PauseStatus, PreUpdateStatus,
         UpdateStatus, SetStatusMultipleCRs, Write, Store, api
<1>3. CASE PreUpdateStatus(a) /\ a = "OK"
  <2>1. /\ pc = "preStatus" /\ pc' \in {"operands", "ready"} /\ req' = req
        /\ Write(req, WithStatus(req, preUpdateStatus(inst)), a)
    BY <1>3 DEF PreUpdateStatus, Proceed
  <2>2. req \in current
    BY <1>3, <2>1, RequestType, WriteAnswer DEF GuardInv
  <2> QED BY <1>1, <1>2, <2>1, <2>2 DEF OwnerInv
<1>4. CASE ~(PreUpdateStatus(a) /\ a = "OK")
  <2>1. pc' \notin {"preStatus", "operands"}
    BY <1>4 DEF UpdateFinalizer, UpdatePhase, ReportError, CleanupStatus,
         RemoveFinalizers, DeletedStatus, PauseStatus, PreUpdateStatus,
         UpdateStatus, SetStatusMultipleCRs, Proceed, handleError, Return,
         ReturnError, ReturnRequeue, EndPass
  <2> QED BY <1>1, <1>2, <2>1, OwnerQuiet
<1> QED BY <1>3, <1>4

LEMMA OwnerOperandCall ==
    ASSUME NEW G \in SUBSET CRs, TypeOK, GuardInv(G), OwnerInv(G), OperandCall
    PROVE  OwnerInv(G)'
<1>1. informer' = informer /\ pc' \notin {"preStatus", "operands"}
  BY DEF OperandCall, CleanupDone, CleanupPending, CleanupError,
         OperandsReady, OperandsProgressing, OperandsError, OperandsConflict,
         ReturnError, EndPass, api
<1>2. touched' \subseteq touched \cup (IF pc = "operands" THEN {req} ELSE {})
  BY DEF OperandCall, CleanupDone, CleanupPending, CleanupError,
         OperandsReady, OperandsProgressing, OperandsError, OperandsConflict,
         OperandsReconciled, ghosts
<1>3. pc = "operands" /\ req \in G => informer[req] # Absent
  BY DEF GuardInv, StepInv
<1> QED BY <1>1, <1>2, <1>3 DEF OwnerInv

LEMMA OwnerSurroundings ==
    ASSUME NEW G \in SUBSET CRs, TypeOK, GuardInv(G), OwnerInv(G), Surroundings
    PROVE  OwnerInv(G)'
<1>1. CASE User
  <2>1. /\ informer' = informer /\ touched' = touched
        /\ pc' = pc /\ req' = req /\ current' \subseteq current
    BY <1>1, UserStep DEF UserWrites, Store
  <2> QED BY <2>1, OwnerQuiet
<1>2. CASE Restart
  BY <1>2 DEF Restart, Reboot, ghosts, OwnerInv, GuardInv, Guarded
<1>3. ASSUME NEW c \in CRs, Deliver(c)
      PROVE  OwnerInv(G)'
  <2>1. /\ informer' = [informer EXCEPT ![c] = server[c]]
        /\ UNCHANGED <<touched, pc, req, current>>
    BY <1>3 DEF Deliver, worker, ghosts
  <2>2. \A d \in CRs : informer'[d] = IF d = c THEN server[c] ELSE informer[d]
    BY <2>1 DEF TypeOK
  <2> QED BY <2>1, <2>2 DEF OwnerInv, GuardInv, Guarded, TypeOK
<1>4. ASSUME NEW c \in CRs,
             BackOffExpires(c) \/ ResourceGone(c) \/ ResourceChanged(c)
      PROVE  OwnerInv(G)'
  BY <1>4, OwnerQuiet
     DEF BackOffExpires, ResourceGone, ResourceChanged, api, worker, ghosts
<1> QED BY <1>1, <1>2, <1>3, <1>4 DEF Surroundings, Watches

LEMMA OwnerNext ==
    ASSUME NEW G \in SUBSET CRs,
           MaxApiErrors = 0, TypeOK, GuardInv(G), OwnerInv(G), [Next]_vars
    PROVE  OwnerInv(G)'
<1>1. CASE \E c \in CRs : Start(c)
  BY <1>1, OwnerStart
<1>2. CASE Worker
  BY <1>2, OwnerList, OwnerApiCall, OwnerOperandCall DEF Worker
<1>3. CASE Surroundings
  BY <1>3, OwnerSurroundings
<1>4. CASE UNCHANGED vars
  BY <1>4, OwnerQuiet DEF vars, api, worker, ghosts
<1> QED BY <1>1, <1>2, <1>3, <1>4 DEF Next

\* Who owned resources before a step and who does after it.
LEMMA TouchedStep ==
    ASSUME TypeOK, [Next]_vars
    PROVE  touched' \subseteq touched \/ (touched' = touched \cup {req} /\ pc = "operands")
BY UserStep
   DEF Next, Start, Worker, ListCRs, ApiCall, OperandCall, Surroundings,
       UpdateFinalizer, UpdatePhase, ReportError, CleanupStatus,
       RemoveFinalizers, DeletedStatus, PauseStatus, PreUpdateStatus,
       UpdateStatus, SetStatusMultipleCRs, CleanupDone, CleanupPending,
       CleanupError, OperandsReady, OperandsProgressing, OperandsError,
       OperandsConflict, OperandsReconciled, UserWrites, Restart, Reboot, Watches, Deliver,
       BackOffExpires, ResourceGone, ResourceChanged, vars, ghosts

LEMMA SingleOwnerStep ==
    ASSUME TypeOK, OwnerInv(CRs), SingleOwner, [Next]_vars
    PROVE  SingleOwner'
<1>1. pc = "operands" => touched \subseteq {req}
  BY DEF OwnerInv, TypeOK
<1> QED BY <1>1, TouchedStep DEF SingleOwner

\* If the operator took over at most one CR from its predecessor and API calls
\* fail only by conflict, then of all CRs that ever exist at most one has
\* resources in the cluster at any time.
THEOREM SingleOwnerAlways ==
    ASSUME MaxApiErrors = 0, \A c, d \in Legacy : c = d
    PROVE  Spec => []SingleOwner
<1> DEFINE I == TypeOK /\ GuardInv(CRs) /\ OwnerInv(CRs) /\ SingleOwner
<1>1. Init => I
  <2>1. ASSUME Init PROVE OwnerInv(CRs) /\ SingleOwner
    BY <2>1, InitGuard
       DEF Init, OwnerInv, SingleOwner, GuardInv, Guarded
  <2> QED BY <2>1, InitType, InitGuard
<1>2. I /\ [Next]_vars => I'
  <2> SUFFICES ASSUME I, [Next]_vars PROVE I'
    OBVIOUS
  <2> QED BY NextType, NextGuard, OwnerNext, SingleOwnerStep
<1>3. I => SingleOwner
  OBVIOUS
<1> QED BY <1>1, <1>2, <1>3, PTL DEF Spec
=============================================================================
