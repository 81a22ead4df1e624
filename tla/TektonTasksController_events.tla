--------------------- MODULE TektonTasksController_events ---------------------
(***************************************************************************)
(* Why nothing is forgotten.  A pass works on a copy that may be behind;   *)
(* what it leaves unfinished another pass must take up.  The argument      *)
(* follows what the events pass on: as long as no event of a CR is due,    *)
(* the copies of it show all that the predicate of the watch looks at, so  *)
(* a pass that ends without a retry has judged the CR by what is stored.   *)
(***************************************************************************)
EXTENDS TektonTasksController_status

\* An event of c, a retry or the report of a resource is still to come, or the
\* last pass has left c to the removal of an unwatched resource.
Due(c) ==
    lag[c] = "event" \/ c \in queue \cup delayed \cup awaiting \cup unreported

\* Copy old shows all of cr that the predicate looks at, and that it has been
\* initialized.
Shows(old, cr) ==
    \/ old = cr
    \/ /\ old # Absent /\ cr # Absent
       /\ ~PassesPredicate(old, cr)
       /\ old.status.phase # "" => cr.status.phase # ""

\* The informer is behind in nothing that matters, unless an event is due.
ShownInv == \A c \in CRs : lag[c] = "event" \/ Shows(informer[c], server[c])

\* Nobody has paused or deployed a CR that is not initialized.
Blank(cr) ==
    cr # Absent /\ cr.status.phase = "" =>
        ~cr.status.paused /\ cr.status.cond \notin {"reconciling", "available"}

CopiesBlank == \A c \in CRs : Blank(server[c]) /\ Blank(informer[c])

BlankInv == CopiesBlank /\ Blank(inst)

\* What a pass knows of its CR.  Where it may end without a write of its own
\* that was accepted, either something is due or its copy shows enough.
SeenInv ==
    /\ pc \in {"list", "deletedStatus"} => Due(req) \/ Shows(inst, server[req])
    /\ pc = "update" /\ isInitialized(inst) => "old" \in inst.fins
    /\ pc = "updateStatus" /\ isInitialized(inst) => Due(req)
    /\ pc \in CleanupPCs => inst.deleting
    /\ pc = "deletedStatus" => ~HasOurFinalizer(inst)
    /\ pc \in DeployingPCs => ~inst.deleting /\ inst.status.phase # ""
    /\ pc = "pauseStatus" => inst.pause
    /\ pc \in {"operands", "ready", "progressing"} => ~inst.status.paused
    /\ pc = "progressing" => Due(req)
    /\ pc = "multiple" =>
          \/ Due(req)
          \/ /\ server[req] # Absent
             /\ ~server[req].deleting /\ server[req].status.phase # ""
             /\ req \in todo \/ server[req].status.cond = "multiple"

EventsInv == ShownInv /\ BlankInv /\ SeenInv /\ NothingForgotten

\* A step of the pass for c makes no work for other CRs and drops nothing that
\* is due.
EventsKept(c) ==
    /\ ShownInv' /\ CopiesBlank'
    /\ \A d \in CRs : Due(d) => Due(d)'
    /\ \A d \in CRs \ {c} :
          server'[d] # Absent /\ Unfinished(server'[d]) =>
              server[d] # Absent /\ Unfinished(server[d])

USE DEF DeployingPCs, CleanupPCs

-----------------------------------------------------------------------------
(* What a copy shows.                                                      *)

LEMMA ShowsTransitive ==
    ASSUME NEW x, NEW y, NEW z, Shows(x, y), Shows(y, z)
    PROVE  Shows(x, z)
BY DEF Shows, PassesPredicate

\* A CR shown by a copy is judged by what the copy says.
LEMMA ShowsFields ==
    ASSUME NEW x, NEW y, Shows(x, y), x # Absent
    PROVE  /\ y # Absent
           /\ y.gen = x.gen /\ y.deleting = x.deleting /\ y.pause = x.pause
           /\ y.fins = x.fins
           /\ x.status.phase # "" => y.status.phase # ""
BY DEF Shows, PassesPredicate

\* A stored version is shown by the one before it, or its event is due.
LEMMA StoreShown ==
    ASSUME TypeOK, NEW c \in CRs, NEW cr, Store(c, cr),
           server[c] # Absent /\ server[c].status.phase # "" =>
               cr = Absent \/ cr.status.phase # ""
    PROVE  /\ \A d \in CRs : lag[d] = "event" => lag'[d] = "event"
           /\ lag'[c] = "event" \/ Shows(server[c], server'[c])
<1>1. /\ server'[c] = Stored(cr)
      /\ lag'[c] = IF Stored(cr) = server[c] THEN lag[c]
                   ELSE IF PassesPredicate(server[c], Stored(cr)) THEN "event"
                   ELSE IF lag[c] = "none" THEN "status" ELSE lag[c]
      /\ \A d \in CRs \ {c} : lag'[d] = lag[d]
  BY DEF Store, TypeOK
<1>2. Stored(cr) \in {Absent, cr}
  BY DEF Stored
<1>3. CASE Stored(cr) = server[c] \/ PassesPredicate(server[c], Stored(cr))
  BY <1>1, <1>3 DEF Shows
<1>4. CASE Stored(cr) # server[c] /\ ~PassesPredicate(server[c], Stored(cr))
  <2>1. server[c] # Absent /\ Stored(cr) # Absent
    BY <1>4 DEF PassesPredicate
  <2> QED BY <1>1, <1>2, <1>4, <2>1 DEF Shows
<1> QED BY <1>3, <1>4

\* The same of a call of the operator; the work queue only grows.
LEMMA CallShown ==
    ASSUME TypeOK, StatusInv, EventsInv, NEW c \in CRs, NEW cr, NEW a, Write(c, cr, a),
           c \in current /\ server[c] # Absent =>
               /\ Blank(cr)
               /\ server[c].status.phase # "" => cr.status.phase # "",
           queue' = queue, delayed \subseteq delayed',
           UNCHANGED <<awaiting, unreported>>
    PROVE  EventsKept(c)
<1>1. /\ informer' = informer
      /\ \A d \in CRs \ {c} : server'[d] = server[d]
      /\ \/ server'[c] = server[c]
         \/ c \in current /\ server[c] # Absent /\ server'[c] \in {Absent, cr}
  BY WriteEffect DEF StatusInv
<1>2. /\ \A d \in CRs : lag[d] = "event" => lag'[d] = "event"
      /\ lag'[c] = "event" \/ Shows(server[c], server'[c])
  <2>1. CASE a \in {"OK", "Lost"}
    <3>1. Store(c, cr) /\ Verdict(c, cr) = "OK"
      BY <2>1 DEF Write, Answers, Verdict
    <3>2. c \in current /\ server[c] # Absent
      BY <3>1 DEF Verdict
    <3> QED BY <3>1, <3>2, StoreShown
  <2>2. CASE a \notin {"OK", "Lost"}
    BY <2>2 DEF Write, api, Shows
  <2> QED BY <2>1, <2>2
<1>3. \A d \in CRs : Due(d) => Due(d)'
  BY <1>2 DEF Due
<1>4. ShownInv'
  BY <1>1, <1>2, ShowsTransitive DEF EventsInv, ShownInv
<1>5. CopiesBlank'
  BY <1>1 DEF EventsInv, BlankInv, CopiesBlank, Blank
<1> QED BY <1>1, <1>3, <1>4, <1>5 DEF EventsKept

-----------------------------------------------------------------------------
(* How a pass goes on and how it ends.                                     *)

\* A pass may end if its CR is finished or something of it is due.
LEMMA PassEnds ==
    ASSUME TypeOK, EventsInv, NEW c \in CRs, req = c, EventsKept(c),
           pc' = "idle", req' = Absent, inst' = Absent,
           Due(c)' \/ server'[c] = Absent \/ ~Unfinished(server'[c])
    PROVE  EventsInv'
<1>1. ASSUME NEW d \in CRs \ {c}, server'[d] # Absent, Unfinished(server'[d])
      PROVE  Due(d)'
  <2>1. Noticed(d) \/ d \in unreported
    BY <1>1 DEF EventsKept, EventsInv, NothingForgotten
  <2> QED BY <2>1 DEF Noticed, Due, EventsKept
<1>2. NothingForgotten'
  <2>1. \A d \in CRs : server'[d] # Absent /\ Unfinished(server'[d]) => Due(d)'
    BY <1>1
  <2> QED BY <2>1 DEF NothingForgotten, Noticed, Due
<1>3. BlankInv' /\ SeenInv'
  BY DEF EventsKept, BlankInv, Blank, SeenInv
<1> QED BY <1>2, <1>3 DEF EventsInv, EventsKept

\* A pass that goes on looks after its CR itself.
LEMMA PassGoesOn ==
    ASSUME TypeOK, EventsInv, NEW c \in CRs, req = c, EventsKept(c),
           req' = c, Blank(inst'), SeenInv'
    PROVE  EventsInv'
<1>1. ASSUME NEW d \in CRs \ {c}, server'[d] # Absent, Unfinished(server'[d])
      PROVE  Due(d)'
  <2>1. Noticed(d) \/ d \in unreported
    BY <1>1 DEF EventsKept, EventsInv, NothingForgotten
  <2> QED BY <2>1 DEF Noticed, Due, EventsKept
<1>2. NothingForgotten'
  BY <1>1 DEF NothingForgotten, Noticed, Due
<1>3. BlankInv'
  BY DEF EventsKept, BlankInv, Blank
<1> QED BY <1>2, <1>3 DEF EventsInv, EventsKept

\* A call that fails is reported or retried, and a report is retried, too.
LEMMA PassFails ==
    ASSUME TypeOK, EventsInv, NEW c \in CRs, req = c, EventsKept(c),
           NEW cr, NEW sent, NEW a, Blank(cr),
           ReturnError \/ EndPass(TRUE) \/ handleError(cr, sent, a)
    PROVE  EventsInv'
<1>1. CASE EndPass(TRUE)
  <2>1. pc' = "idle" /\ req' = Absent /\ inst' = Absent /\ Due(c)'
    BY <1>1 DEF EndPass, Due
  <2> QED BY <2>1, PassEnds
<1>2. CASE Proceed("errorStatus", cr, sent, a)
  <2>1. pc' = "errorStatus" /\ inst' = cr /\ req' = req
    BY <1>2 DEF Proceed
  <2>2. Blank(inst')
    BY <2>1 DEF Blank
  <2>3. SeenInv'
    BY <2>1 DEF SeenInv
  <2> QED BY <2>1, <2>2, <2>3, PassGoesOn
<1> QED BY <1>1, <1>2 DEF ReturnError, ReturnRequeue, handleError

LEMMA PassQueue ==
    ASSUME NEW next, NEW cr, NEW sent, NEW a,
           \/ ReturnError \/ EndPass(TRUE) \/ EndPass(FALSE)
           \/ handleError(cr, sent, a) \/ Proceed(next, cr, sent, a)
    PROVE  queue' = queue /\ delayed \subseteq delayed'
BY DEF ReturnError, ReturnRequeue, EndPass, handleError, Proceed

\* The writes of a status: one that is accepted was computed from what was
\* stored.
LEMMA StatusShown ==
    ASSUME TypeOK, StatusInv, EventsInv, InPass, NEW c \in CRs, req = c,
           NEW st \in Status, st.phase # "",
           NEW a, Write(req, WithStatus(req, st), a),
           queue' = queue, delayed \subseteq delayed',
           UNCHANGED <<awaiting, unreported>>
    PROVE  /\ EventsKept(c)
           /\ Blank([inst EXCEPT !.status = st])
           /\ a = "OK" /\ pc # "errorStatus" =>
                 \/ Due(c)'
                 \/ server'[c] = [inst EXCEPT !.status = st]
<1>1. inst \in CR /\ c \in CRs
  BY StatusCopy
<1>2. [inst EXCEPT !.status = st].status = st
  BY <1>1 DEF CR
<1>3. Blank([inst EXCEPT !.status = st])
  BY <1>2 DEF Blank
<1>4. c \in current => WithStatus(c, st).status = st
  BY StatusCopy
<1>5. EventsKept(c)
  BY <1>4, CallShown DEF Blank
<1>6. ASSUME a = "OK", pc # "errorStatus"
      PROVE  Due(c)' \/ server'[c] = [inst EXCEPT !.status = st]
  <2>1. Store(c, WithStatus(c, st)) /\ c \in current /\ server[c] # Absent
    BY <1>6 DEF Write, Answers, Verdict
  <2>2. WithStatus(c, st) = [inst EXCEPT !.status = st]
    BY <1>6, <2>1, StatusCopy
  <2>3. /\ server'[c] = Stored(WithStatus(c, st))
        /\ Stored(WithStatus(c, st)) = Absent => lag'[c] = "event"
    BY <2>1 DEF Store, TypeOK, PassesPredicate
  <2> QED BY <2>2, <2>3 DEF Stored, Due
<1> QED BY <1>3, <1>5, <1>6

\* The writes of the finalizers.
LEMMA FinalizersShown ==
    ASSUME TypeOK, StatusInv, EventsInv, InPass, pc # "errorStatus",
           NEW c \in CRs, req = c,
           NEW cr, cr \in {WithFinalizer(inst), WithoutFinalizers(inst)},
           NEW a, Write(req, cr, a),
           queue' = queue, delayed \subseteq delayed',
           UNCHANGED <<awaiting, unreported>>
    PROVE  /\ EventsKept(c)
           /\ cr \in CR /\ cr.status = inst.status /\ cr.deleting = inst.deleting
           /\ Blank(cr)
           /\ a = "OK" => \/ Due(c)'
                          \/ server'[c] = cr /\ cr.fins = inst.fins
<1>1. inst \in CR
  BY RequestType DEF InPass
<1>2. cr \in CR /\ cr.status = inst.status /\ cr.deleting = inst.deleting
  <2>1. cr \in CR
    BY <1>1, FinalizerTypes
  <2> QED BY <1>1, <2>1 DEF WithFinalizer, WithoutFinalizers, CR
<1>3. Blank(cr)
  <2>1. Blank(inst) /\ inst # Absent
    BY <1>1, ConstantsAssumption DEF EventsInv, BlankInv
  <2> QED BY <1>2, <2>1 DEF Blank
<1>4. c \in current => server[c] = inst
  BY DEF StatusInv, PassInv
<1>5. EventsKept(c)
  BY <1>2, <1>3, <1>4, CallShown
<1>6. ASSUME a = "OK"
      PROVE  Due(c)' \/ (server'[c] = cr /\ cr.fins = inst.fins)
  <2>1. Store(c, cr) /\ c \in current /\ server[c] # Absent
    BY <1>6 DEF Write, Answers, Verdict
  <2>2. /\ server'[c] = Stored(cr)
        /\ lag'[c] = IF Stored(cr) = server[c] THEN lag[c]
                     ELSE IF PassesPredicate(server[c], Stored(cr)) THEN "event"
                     ELSE IF lag[c] = "none" THEN "status" ELSE lag[c]
    BY <2>1 DEF Store, TypeOK
  <2>3. CASE Stored(cr) = Absent
    BY <2>1, <2>2, <2>3 DEF PassesPredicate, Due
  <2>4. CASE Stored(cr) = cr /\ cr.fins # inst.fins
    BY <1>4, <2>1, <2>2, <2>4 DEF PassesPredicate, Due
  <2> QED BY <2>2, <2>3, <2>4 DEF Stored
<1> QED BY <1>2, <1>3, <1>5, <1>6

\* What a status that ends a pass leaves to be done.
LEMMA StatusFinishes ==
    ASSUME NEW cr \in CR, NEW st \in Status,
           \/ cr.deleting /\ ~HasOurFinalizer(cr)
           \/ /\ ~cr.deleting /\ st.phase # ""
              /\ \/ cr.pause
                 \/ /\ ~st.paused /\ st.cond # "reconciling"
                    /\ st.phase = "Deployed" => st.obsGen = cr.gen
    PROVE  ~Unfinished([cr EXCEPT !.status = st])
BY DEF Unfinished, isInitialized, isBeingDeleted, HasOurFinalizer, CR

-----------------------------------------------------------------------------
(* The invariant, call by call.                                            *)

LEMMA UpdateFinalizerEvents ==
    ASSUME TypeOK, StatusInv, EventsInv, NEW a, UpdateFinalizer(a)
    PROVE  EventsInv'
<1> DEFINE cr == WithFinalizer(inst)
<1>1. PICK c \in CRs : req = c
  BY RequestType DEF UpdateFinalizer
<1>2. /\ InPass /\ pc = "update" /\ inst \in CR /\ Write(req, cr, a)
      /\ UNCHANGED <<awaiting, unreported>>
  BY RequestType DEF UpdateFinalizer, InPass, ghosts
<1>3. queue' = queue /\ delayed \subseteq delayed'
  BY PassQueue DEF UpdateFinalizer
<1>4. /\ EventsKept(c)
      /\ cr.status = inst.status /\ cr.deleting = inst.deleting /\ Blank(cr)
      /\ a = "OK" => Due(c)' \/ cr.fins = inst.fins
  BY <1>1, <1>2, <1>3, FinalizersShown
<1>5. CASE a = "OK"
  <2>1. pc' = "updateStatus" /\ req' = req /\ inst' = cr
    BY <1>5 DEF UpdateFinalizer, Proceed
  <2>2. isInitialized(inst) => cr.fins # inst.fins
    <3>1. isInitialized(inst) => "old" \in inst.fins
      BY <1>2 DEF EventsInv, SeenInv
    <3> QED BY <1>2, <3>1 DEF WithFinalizer, CR
  <2>3. isInitialized(inst)' => Due(c)'
    BY <1>4, <1>5, <2>1, <2>2 DEF isInitialized, isBeingDeleted
  <2>4. SeenInv'
    BY <1>1, <2>1, <2>3 DEF SeenInv, Due
  <2>5. Blank(inst')
    BY <1>4, <2>1 DEF Blank
  <2> QED BY <1>1, <1>4, <2>1, <2>4, <2>5, PassGoesOn
<1>6. CASE a # "OK"
  BY <1>1, <1>4, <1>6, PassFails DEF UpdateFinalizer
<1> QED BY <1>5, <1>6

LEMMA UpdatePhaseEvents ==
    ASSUME TypeOK, StatusInv, EventsInv, NEW a, UpdatePhase(a)
    PROVE  EventsInv'
<1> DEFINE st == DeployingStatus(inst)
           cr == [inst EXCEPT !.status = st]
<1>1. PICK c \in CRs : req = c
  BY RequestType DEF UpdatePhase
<1>2. /\ InPass /\ pc = "updateStatus" /\ inst \in CR
      /\ Write(req, WithStatus(req, st), a) /\ UNCHANGED <<awaiting, unreported>>
  BY RequestType DEF UpdatePhase, InPass, ghosts
<1>3. queue' = queue /\ delayed \subseteq delayed'
  BY PassQueue DEF UpdatePhase, Return
<1>4. st \in Status /\ st.phase = "Deploying"
  BY <1>2, StatusKnown
<1>5. /\ EventsKept(c) /\ Blank(cr)
      /\ a = "OK" => Due(c)' \/ server'[c] = cr
  BY <1>1, <1>2, <1>3, <1>4, StatusShown
<1>6. CASE a = "OK"
  <2>1. pc' = "idle" /\ req' = Absent /\ inst' = Absent
    BY <1>6 DEF UpdatePhase, Return, EndPass
  <2>2. CASE isInitialized(inst)
    <3>1. Due(c)
      BY <1>1, <1>2, <2>2 DEF EventsInv, SeenInv
    <3> QED BY <1>1, <1>5, <2>1, <3>1, PassEnds DEF EventsKept
  <2>3. CASE ~isInitialized(inst)
    <3>1. Blank(inst) /\ inst # Absent
      BY <1>2, ConstantsAssumption DEF EventsInv, BlankInv
    <3>2. ~inst.deleting /\ ~inst.status.paused
          /\ inst.status.cond \notin {"reconciling", "available"}
      BY <2>3, <3>1 DEF Blank, isInitialized, isBeingDeleted
    <3>3. st.paused = inst.status.paused /\ st.cond = inst.status.cond
      BY <1>2 DEF DeployingStatus, CR, Status
    <3>4. ~Unfinished(cr)
      BY <1>2, <1>4, <3>2, <3>3, StatusFinishes
    <3>5. Due(c)' \/ ~Unfinished(server'[c])
      BY <1>5, <1>6, <3>4
    <3> QED BY <1>1, <1>5, <2>1, <3>5, PassEnds
  <2> QED BY <2>2, <2>3
<1>7. CASE a # "OK"
  BY <1>1, <1>5, <1>7, PassFails DEF UpdatePhase
<1> QED BY <1>6, <1>7

LEMMA ReportErrorEvents ==
    ASSUME TypeOK, StatusInv, EventsInv, NEW a, ReportError(a)
    PROVE  EventsInv'
<1>1. PICK c \in CRs : req = c
  BY RequestType DEF ReportError
<1>2. /\ InPass /\ Write(req, WithStatus(req, errorStatus(inst)), a)
      /\ UNCHANGED <<awaiting, unreported>> /\ ReturnError
  BY DEF ReportError, InPass, ghosts
<1>3. /\ EventsKept(c)
      /\ Blank([inst EXCEPT !.status = errorStatus(inst)])
  BY <1>1, <1>2, PassQueue, StatusKnown, StatusShown
<1> QED BY <1>1, <1>2, <1>3, PassFails

LEMMA CleanupStatusEvents ==
    ASSUME TypeOK, StatusInv, EventsInv, NEW a, CleanupStatus(a)
    PROVE  EventsInv'
<1> DEFINE st == cleanupStatus(inst)
           cr == [inst EXCEPT !.status = st]
<1>1. PICK c \in CRs : req = c
  BY RequestType DEF CleanupStatus
<1>2. /\ InPass /\ pc = "cleanupStatus" /\ inst \in CR
      /\ Write(req, WithStatus(req, st), a) /\ UNCHANGED <<awaiting, unreported>>
  BY RequestType DEF CleanupStatus, InPass, ghosts
<1>3. queue' = queue /\ delayed \subseteq delayed'
  BY PassQueue DEF CleanupStatus
<1>4. EventsKept(c) /\ Blank(cr)
  BY <1>1, <1>2, <1>3, StatusKnown, StatusShown
<1>5. CASE a = "OK"
  <2>1. pc' = "cleanupOperands" /\ req' = req /\ inst' = cr
    BY <1>5 DEF CleanupStatus, Proceed
  <2>2. inst'.deleting
    BY <1>2, <2>1 DEF EventsInv, SeenInv, CR
  <2>3. SeenInv' /\ Blank(inst')
    BY <1>4, <2>1, <2>2 DEF SeenInv, Blank
  <2> QED BY <1>1, <1>4, <2>1, <2>3, PassGoesOn
<1>6. CASE a # "OK"
  BY <1>1, <1>4, <1>6, PassFails DEF CleanupStatus
<1> QED BY <1>5, <1>6

LEMMA RemoveFinalizersEvents ==
    ASSUME TypeOK, StatusInv, EventsInv, NEW a, RemoveFinalizers(a)
    PROVE  EventsInv'
<1> DEFINE cr == WithoutFinalizers(inst)
<1>1. PICK c \in CRs : req = c
  BY RequestType DEF RemoveFinalizers
<1>2. /\ InPass /\ pc = "removeFinalizer" /\ inst \in CR /\ Write(req, cr, a)
      /\ UNCHANGED <<awaiting, unreported>>
  BY RequestType DEF RemoveFinalizers, InPass, ghosts
<1>3. queue' = queue /\ delayed \subseteq delayed'
  BY PassQueue DEF RemoveFinalizers
<1>4. /\ EventsKept(c) /\ cr.deleting = inst.deleting /\ Blank(cr)
      /\ a = "OK" => Due(c)' \/ server'[c] = cr
  BY <1>1, <1>2, <1>3, FinalizersShown
<1>5. CASE a = "OK"
  <2>1. pc' = "deletedStatus" /\ req' = req /\ inst' = cr
    BY <1>5 DEF RemoveFinalizers, Proceed
  <2>2. inst'.deleting /\ ~HasOurFinalizer(inst')
    BY <1>2, <1>4, <2>1
       DEF EventsInv, SeenInv, WithoutFinalizers, HasOurFinalizer, CR
  <2>3. Due(c)' \/ Shows(inst', server'[c])
    BY <1>4, <1>5, <2>1 DEF Shows
  <2>4. SeenInv' /\ Blank(inst')
    BY <1>1, <1>4, <2>1, <2>2, <2>3
       DEF SeenInv, Blank, Due, Shows, HasOurFinalizer
  <2> QED BY <1>1, <1>4, <2>1, <2>4, PassGoesOn
<1>6. CASE a # "OK"
  BY <1>1, <1>4, <1>6, PassFails DEF RemoveFinalizers
<1> QED BY <1>5, <1>6

\* A refused last status is no reason to go on: the copy has shown that the
\* finalizers are gone.
LEMMA DeletedStatusEvents ==
    ASSUME TypeOK, StatusInv, EventsInv, NEW a, DeletedStatus(a)
    PROVE  EventsInv'
<1> DEFINE st == deletedStatus(inst)
           cr == [inst EXCEPT !.status = st]
<1>1. PICK c \in CRs : req = c
  BY RequestType DEF DeletedStatus
<1>2. /\ InPass /\ pc = "deletedStatus" /\ inst \in CR
      /\ Write(req, WithStatus(req, st), a) /\ UNCHANGED <<awaiting, unreported>>
  BY RequestType DEF DeletedStatus, InPass, ghosts
<1>3. queue' = queue /\ delayed \subseteq delayed'
  BY PassQueue DEF DeletedStatus
<1>4. /\ EventsKept(c) /\ Blank(cr) /\ st \in Status
      /\ a = "OK" => Due(c)' \/ server'[c] = cr
  BY <1>1, <1>2, <1>3, StatusKnown, StatusShown
<1>5. /\ inst.deleting /\ ~HasOurFinalizer(inst) /\ inst # Absent
      /\ Due(c) \/ Shows(inst, server[c])
  BY <1>1, <1>2, ConstantsAssumption DEF EventsInv, SeenInv
<1>6. CASE a \in {"OK", "Conflict", "NotFound"}
  <2>1. pc' = "idle" /\ req' = Absent /\ inst' = Absent
    BY <1>6 DEF DeletedStatus, EndPass
  <2>2. CASE a = "OK"
    <3>1. ~Unfinished(cr)
      BY <1>2, <1>4, <1>5, StatusFinishes
    <3>2. Due(c)' \/ ~Unfinished(server'[c])
      BY <1>4, <2>2, <3>1
    <3> QED BY <1>1, <1>4, <2>1, <3>2, PassEnds
  <2>3. CASE a \in {"Conflict", "NotFound"}
    <3>1. server'[c] = server[c]
      BY <1>2, <2>3 DEF Write, api
    <3>2. Shows(inst, server[c]) =>
             server[c].deleting /\ ~HasOurFinalizer(server[c])
      BY <1>5, ShowsFields DEF HasOurFinalizer
    <3>3. Due(c)' \/ ~Unfinished(server'[c])
      BY <1>4, <1>5, <3>1, <3>2 DEF EventsKept, Unfinished
    <3> QED BY <1>1, <1>4, <2>1, <3>3, PassEnds
  <2> QED BY <1>6, <2>2, <2>3
<1>7. CASE a \notin {"OK", "Conflict", "NotFound"}
  BY <1>1, <1>4, <1>7, PassFails DEF DeletedStatus
<1> QED BY <1>6, <1>7

LEMMA PauseStatusEvents ==
    ASSUME TypeOK, StatusInv, EventsInv, NEW a, PauseStatus(a)
    PROVE  EventsInv'
<1> DEFINE st == pausedStatus(inst)
           cr == [inst EXCEPT !.status = st]
<1>1. PICK c \in CRs : req = c
  BY RequestType DEF PauseStatus
<1>2. /\ InPass /\ pc = "pauseStatus" /\ inst \in CR
      /\ Write(req, WithStatus(req, st), a) /\ UNCHANGED <<awaiting, unreported>>
  BY RequestType DEF PauseStatus, InPass, ghosts
<1>3. queue' = queue /\ delayed \subseteq delayed'
  BY PassQueue DEF PauseStatus, Return
<1>4. ~inst.deleting /\ inst.status.phase # "" /\ inst.pause
  BY <1>2 DEF EventsInv, SeenInv
<1>5. st \in Status /\ st.phase = inst.status.phase
  BY <1>2, StatusKnown DEF pausedStatus, Status
<1>6. /\ EventsKept(c) /\ Blank(cr)
      /\ a = "OK" => Due(c)' \/ server'[c] = cr
  BY <1>1, <1>2, <1>3, <1>4, <1>5, StatusShown
<1>7. CASE a = "OK"
  <2>1. pc' = "idle" /\ req' = Absent /\ inst' = Absent
    BY <1>7 DEF PauseStatus, Return, EndPass
  <2>2. ~Unfinished(cr)
    BY <1>2, <1>4, <1>5, StatusFinishes
  <2>3. Due(c)' \/ ~Unfinished(server'[c])
    BY <1>6, <1>7, <2>2
  <2> QED BY <1>1, <1>6, <2>1, <2>3, PassEnds
<1>8. CASE a # "OK"
  BY <1>1, <1>6, <1>8, PassFails DEF PauseStatus
<1> QED BY <1>7, <1>8

LEMMA PreUpdateStatusEvents ==
    ASSUME TypeOK, StatusInv, EventsInv, NEW a, PreUpdateStatus(a)
    PROVE  EventsInv'
<1> DEFINE st == preUpdateStatus(inst)
           cr == [inst EXCEPT !.status = st]
<1>1. PICK c \in CRs : req = c
  BY RequestType DEF PreUpdateStatus
<1>2. /\ InPass /\ pc = "preStatus" /\ inst \in CR
      /\ Write(req, WithStatus(req, st), a) /\ UNCHANGED <<awaiting, unreported>>
  BY RequestType DEF PreUpdateStatus, InPass, ghosts
<1>3. queue' = queue /\ delayed \subseteq delayed'
  BY PassQueue DEF PreUpdateStatus
<1>4. st \in Status /\ st.phase = "Deploying" /\ ~st.paused
  BY <1>2, StatusKnown
<1>5. EventsKept(c) /\ Blank(cr)
  BY <1>1, <1>2, <1>3, <1>4, StatusShown
<1>6. CASE a = "OK"
  <2>1. pc' \in {"operands", "ready"} /\ req' = req /\ inst' = cr
    BY <1>6 DEF PreUpdateStatus, Proceed
  <2>2. ~inst.deleting
    BY <1>2 DEF EventsInv, SeenInv
  <2>3. ~inst'.deleting /\ inst'.status.phase # "" /\ ~inst'.status.paused
    BY <1>2, <1>4, <2>1, <2>2 DEF CR
  <2>4. SeenInv' /\ Blank(inst')
    BY <1>5, <2>1, <2>3 DEF SeenInv, Blank
  <2> QED BY <1>1, <1>5, <2>1, <2>4, PassGoesOn
<1>7. CASE a # "OK"
  BY <1>1, <1>5, <1>7, PassFails DEF PreUpdateStatus
<1> QED BY <1>6, <1>7

LEMMA UpdateStatusEvents ==
    ASSUME TypeOK, StatusInv, EventsInv, NEW a, UpdateStatus(a)
    PROVE  EventsInv'
<1> DEFINE ready == pc = "ready"
           st == updateStatus(inst, ready)
           cr == [inst EXCEPT !.status = st]
<1>1. PICK c \in CRs : req = c
  BY RequestType DEF UpdateStatus
<1>2. /\ InPass /\ pc \in {"ready", "progressing"} /\ inst \in CR
      /\ Write(req, WithStatus(req, st), a) /\ UNCHANGED <<awaiting, unreported>>
  BY RequestType DEF UpdateStatus, InPass, ghosts
<1>3. queue' = queue /\ delayed \subseteq delayed'
  BY PassQueue DEF UpdateStatus
<1>4. /\ st \in Status /\ st.phase # "" /\ st.obsGen = inst.gen
      /\ st.paused = inst.status.paused
      /\ ready => st.phase = "Deployed" /\ st.cond = "available"
  BY <1>2, StatusTypes DEF updateStatus, CR, Status
<1>5. /\ EventsKept(c) /\ Blank(cr)
      /\ a = "OK" => Due(c)' \/ server'[c] = cr
  BY <1>1, <1>2, <1>3, <1>4, StatusShown
<1>6. CASE a = "OK"
  <2>1. pc' = "idle" /\ req' = Absent /\ inst' = Absent
    BY <1>6 DEF UpdateStatus, EndPass
  <2>2. CASE pc = "ready"
    <3>1. ~inst.deleting /\ ~inst.status.paused
      BY <2>2 DEF EventsInv, SeenInv
    <3>2. ~Unfinished(cr)
      BY <1>2, <1>4, <2>2, <3>1, StatusFinishes
    <3>3. Due(c)' \/ ~Unfinished(server'[c])
      BY <1>5, <1>6, <3>2
    <3> QED BY <1>1, <1>5, <2>1, <3>3, PassEnds
  <2>3. CASE pc = "progressing"
    <3>1. Due(c)
      BY <1>1, <2>3 DEF EventsInv, SeenInv
    <3> QED BY <1>1, <1>5, <2>1, <3>1, PassEnds DEF EventsKept
  <2> QED BY <1>2, <2>2, <2>3
<1>7. CASE a # "OK"
  BY <1>1, <1>5, <1>7, PassFails DEF UpdateStatus
<1> QED BY <1>6, <1>7

\* The CR of the pass is written in its turn, like the others: whoever is found
\* among several CRs has nothing more to do until an event comes.
LEMMA SetStatusMultipleEvents ==
    ASSUME TypeOK, StatusInv, EventsInv, NEW c \in CRs, NEW a,
           SetStatusMultipleCRs(c, a)
    PROVE  EventsInv'
<1> DEFINE cr == IF server[c] = Absent THEN informer[c]
                 ELSE [server[c] EXCEPT !.status = multipleStatus(server[c])]
<1>1. PICK r \in CRs : req = r
  BY RequestType DEF SetStatusMultipleCRs
<1>2. /\ pc = "multiple" /\ c \in todo /\ Write(c, cr, a)
      /\ UNCHANGED <<awaiting, unreported>>
      /\ \/ ReturnError
         \/ a = "OK" /\ todo = {c} /\ Return
         \/ /\ a = "OK" /\ todo' = todo \ {c}
            /\ UNCHANGED <<pc, req, inst, queue, delayed>>
  <2>1. /\ pc = "multiple" /\ c \in todo /\ Write(c, cr, a)
        /\ UNCHANGED <<awaiting, unreported>>
    BY DEF SetStatusMultipleCRs, ghosts
  <2>2. \/ ReturnError
        \/ a = "OK" /\ todo = {c} /\ Return
        \/ /\ a = "OK" /\ todo' = todo \ {c}
           /\ UNCHANGED <<pc, req, inst, queue, delayed>>
    BY DEF SetStatusMultipleCRs
  <2> QED BY <2>1, <2>2
<1>3. queue' = queue /\ delayed \subseteq delayed'
  BY <1>2 DEF ReturnError, Return, EndPass
<1>4. server[c] # Absent =>
         /\ cr.status.phase = server[c].status.phase
         /\ cr.status.paused = server[c].status.paused
         /\ cr.status.cond = "multiple"
         /\ cr.deleting = server[c].deleting /\ cr.fins = server[c].fins
  BY DEF TypeOK, CR, Status, multipleStatus
<1>5. Blank(server[c])
  BY DEF EventsInv, BlankInv, CopiesBlank
<1>6. EventsKept(c)
  <2>1. server[c] # Absent =>
           Blank(cr) /\ (server[c].status.phase # "" => cr.status.phase # "")
    BY <1>4, <1>5 DEF Blank
  <2> QED BY <1>2, <1>3, <2>1, CallShown
<1>7. \/ server'[c] = server[c]
      \/ server[c] # Absent /\ server'[c] \in {Absent, cr}
  BY <1>2, WriteEffect DEF StatusInv
<1>8. \A d \in CRs \ {c} : server'[d] = server[d]
  BY <1>2, WriteEffect DEF StatusInv
<1>9. EventsKept(r)
  <2>1. server'[c] # Absent /\ Unfinished(server'[c]) =>
           server[c] # Absent /\ Unfinished(server[c])
    <3>1. server[c] # Absent /\ Unfinished(cr) => Unfinished(server[c])
      BY <1>4 DEF Unfinished, isInitialized, isBeingDeleted, HasOurFinalizer
    <3> QED BY <1>7, <3>1
  <2> QED BY <1>6, <2>1 DEF EventsKept
\* What the loop has left of the CR it runs for.
<1>10. ASSUME a = "OK"
       PROVE  \/ Due(r)'
              \/ /\ server'[r] # Absent
                 /\ ~server'[r].deleting /\ server'[r].status.phase # ""
                 /\ \/ r \in todo \ {c}
                    \/ server'[r].status.cond = "multiple"
  <2> SUFFICES ASSUME ~Due(r)
               PROVE  \/ Due(r)'
                      \/ /\ server'[r] # Absent
                         /\ ~server'[r].deleting /\ server'[r].status.phase # ""
                         /\ \/ r \in todo \ {c}
                            \/ server'[r].status.cond = "multiple"
    BY <1>9 DEF EventsKept
  <2>1. /\ server[r] # Absent
        /\ ~server[r].deleting /\ server[r].status.phase # ""
        /\ r \in todo \/ server[r].status.cond = "multiple"
    BY <1>1, <1>2 DEF EventsInv, SeenInv
  <2>2. CASE r # c
    BY <1>8, <2>1, <2>2
  <2>3. CASE r = c
    <3>1. Store(c, cr) /\ server[c] # Absent
      BY <1>2, <1>10 DEF Write, Answers, Verdict
    <3>2. server'[c] = cr
      BY <1>4, <2>1, <2>3, <3>1 DEF Store, Stored, TypeOK
    <3>3. cr # Absent
      BY <3>1, StatusTypes, CRTypes, ConstantsAssumption DEF TypeOK
    <3> QED BY <1>4, <2>1, <2>3, <3>2, <3>3
  <2> QED BY <2>2, <2>3
<1>11. CASE ReturnError
  <2>1. Blank(Absent)
    BY DEF Blank
  <2> QED BY <1>1, <1>9, <1>11, <2>1, PassFails
<1>12. CASE a = "OK" /\ todo = {c} /\ Return
  <2>1. pc' = "idle" /\ req' = Absent /\ inst' = Absent
    BY <1>12 DEF Return, EndPass
  <2>2. Due(r)' \/ ~Unfinished(server'[r])
    BY <1>10, <1>12 DEF Unfinished, isInitialized, isBeingDeleted
  <2> QED BY <1>1, <1>9, <2>1, <2>2, PassEnds
<1>13. CASE /\ a = "OK" /\ todo' = todo \ {c}
            /\ UNCHANGED <<pc, req, inst, queue, delayed>>
  <2>1. SeenInv'
    BY <1>1, <1>2, <1>10, <1>13 DEF SeenInv, Due
  <2>2. Blank(inst')
    BY <1>13 DEF EventsInv, BlankInv, Blank
  <2> QED BY <1>1, <1>9, <1>13, <2>1, <2>2, PassGoesOn
<1> QED BY <1>2, <1>11, <1>12, <1>13

LEMMA ApiCallEvents ==
    ASSUME TypeOK, StatusInv, EventsInv, ApiCall
    PROVE  EventsInv'
BY UpdateFinalizerEvents, UpdatePhaseEvents, ReportErrorEvents,
   CleanupStatusEvents, RemoveFinalizersEvents, DeletedStatusEvents,
   PauseStatusEvents, PreUpdateStatusEvents, UpdateStatusEvents,
   SetStatusMultipleEvents
   DEF ApiCall

-----------------------------------------------------------------------------
(* The steps that write no CR.                                             *)

LEMMA QuietKept ==
    ASSUME EventsInv, NEW c \in CRs, UNCHANGED <<api, queue>>,
           delayed \subseteq delayed', awaiting \subseteq awaiting',
           unreported \subseteq unreported'
    PROVE  EventsKept(c)
BY DEF EventsKept, EventsInv, ShownInv, BlankInv, CopiesBlank, Blank, Due, api

\* A rival is missing from the list only if its event is due, and so is the CR
\* of the pass itself.
LEMMA ListCRsEvents ==
    ASSUME TypeOK, EventsInv, ListCRs
    PROVE  EventsInv'
<1>1. PICK c \in CRs : req = c
  BY RequestType DEF ListCRs
<1>2. /\ pc = "list" /\ inst # Absent /\ UNCHANGED api
      /\ UNCHANGED <<awaiting, unreported>> /\ queue' = queue /\ delayed' = delayed
  BY DEF ListCRs, Return, EndPass, TypeOK, ghosts
<1>3. EventsKept(c)
  BY <1>2, QuietKept
<1>4. /\ ~inst.deleting /\ inst.status.phase # ""
      /\ Due(c) \/ Shows(inst, server[c])
  BY <1>1, <1>2 DEF EventsInv, SeenInv
<1>5. Shows(inst, server[c]) => /\ server[c] # Absent /\ ~server[c].deleting
                                /\ server[c].status.phase # ""
                                /\ server[c].pause = inst.pause
  BY <1>2, <1>4, ShowsFields
<1>6. server' = server /\ Due(c)' = Due(c)
  BY <1>2 DEF api, Due
<1>7. CASE pc' = "multiple" /\ todo' = Listed /\ inst' = Absent /\ req' = req
  <2>1. Due(c) \/ c \in Listed
    <3>1. CASE informer[c] = Absent
      BY <1>4, <1>5, <3>1
         DEF EventsInv, ShownInv, Due, Shows
    <3>2. CASE informer[c] # Absent
      BY <3>2 DEF Listed
    <3> QED BY <3>1, <3>2
  <2>2. SeenInv'
    BY <1>1, <1>4, <1>5, <1>6, <1>7, <2>1 DEF SeenInv, Due
  <2>3. Blank(inst')
    BY <1>7 DEF Blank
  <2> QED BY <1>1, <1>3, <1>7, <2>2, <2>3, PassGoesOn
<1>8. CASE inst.pause /\ Return
  <2>1. pc' = "idle" /\ req' = Absent /\ inst' = Absent
    BY <1>8 DEF Return, EndPass
  <2>2. Due(c)' \/ ~Unfinished(server'[c])
    BY <1>4, <1>5, <1>6, <1>8 DEF Unfinished, isInitialized, isBeingDeleted
  <2> QED BY <1>1, <1>3, <2>1, <2>2, PassEnds
<1>9. CASE /\ pc' = IF inst.pause THEN "pauseStatus" ELSE "preStatus"
           /\ UNCHANGED <<req, inst>>
  <2>1. SeenInv' /\ Blank(inst')
    BY <1>4, <1>9 DEF SeenInv, EventsInv, BlankInv, Blank
  <2> QED BY <1>1, <1>3, <1>9, <2>1, PassGoesOn
<1> QED BY <1>7, <1>8, <1>9 DEF ListCRs

LEMMA OperandCallEvents ==
    ASSUME TypeOK, EventsInv, OperandCall
    PROVE  EventsInv'
<1>1. pc \in {"operands", "cleanupOperands"} /\ UNCHANGED api
  BY DEF OperandCall, CleanupDone, CleanupPending, CleanupError,
         OperandsReady, OperandsProgressing, OperandsError, OperandsConflict
<1>2. PICK c \in CRs : req = c
  BY <1>1, RequestType
<1>3. /\ queue' = queue /\ delayed \subseteq delayed'
      /\ awaiting \subseteq awaiting' /\ unreported \subseteq unreported'
  BY DEF OperandCall, CleanupDone, CleanupPending, CleanupError,
         OperandsReady, OperandsProgressing, OperandsError, OperandsConflict,
         OperandsReconciled, AwaitRemoval, EndPass, ReturnError, events
<1>4. EventsKept(c)
  BY <1>1, <1>3, QuietKept
<1>5. /\ pc = "operands" => /\ ~inst.deleting /\ inst.status.phase # ""
                            /\ ~inst.status.paused
      /\ pc = "cleanupOperands" => inst.deleting
      /\ Blank(inst)
  BY DEF EventsInv, SeenInv, BlankInv
<1>6. Blank(Absent)
  BY DEF Blank
<1>7. CASE CleanupDone
  <2>1. pc' = "removeFinalizer" /\ UNCHANGED <<req, inst>>
    BY <1>7 DEF CleanupDone
  <2>2. SeenInv' /\ Blank(inst')
    BY <1>5, <1>7, <2>1 DEF CleanupDone, SeenInv, Blank
  <2> QED BY <1>2, <1>4, <2>1, <2>2, PassGoesOn
<1>8. CASE CleanupPending
  <2>1. pc' = "idle" /\ req' = Absent /\ inst' = Absent /\ Due(c)'
    BY <1>2, <1>8 DEF CleanupPending, AwaitRemoval, EndPass, Due
  <2> QED BY <1>2, <1>4, <2>1, PassEnds
<1>9. CASE CleanupError \/ OperandsConflict
  BY <1>2, <1>4, <1>6, <1>9, PassFails DEF CleanupError, OperandsConflict
<1>10. CASE OperandsReady \/ OperandsProgressing \/ OperandsError
  <2>1. /\ pc = "operands" /\ pc' \in {"ready", "progressing", "errorStatus"}
        /\ pc' = "progressing" => c \in awaiting' \cup unreported'
        /\ UNCHANGED <<req, inst>>
    BY <1>2, <1>10 DEF OperandsReady, OperandsProgressing, OperandsError,
                       OperandsReconciled, AwaitRemoval
  <2>2. SeenInv' /\ Blank(inst')
    BY <1>2, <1>5, <2>1 DEF SeenInv, Blank, Due
  <2> QED BY <1>2, <1>4, <2>1, <2>2, PassGoesOn
<1> QED BY <1>7, <1>8, <1>9, <1>10 DEF OperandCall

\* A pass that finds no CR leaves its event to come, and one that finds a copy
\* that is behind knows it.
LEMMA StartEvents ==
    ASSUME TypeOK, EventsInv, NEW c \in CRs, Start(c)
    PROVE  EventsInv'
<1>1. /\ UNCHANGED <<server, informer, lag, delayed, awaiting>>
      /\ queue' = queue \ {c} /\ unreported' = unreported \ {c} /\ req = Absent
  BY DEF Start, api, TypeOK
<1>2. ASSUME NEW d \in CRs \ {c}, server'[d] # Absent, Unfinished(server'[d])
      PROVE  Due(d)'
  <2>1. (Noticed(d) \/ d \in unreported) /\ d # req
    BY <1>1, <1>2, ConstantsAssumption DEF EventsInv, NothingForgotten
  <2> QED BY <1>1, <2>1 DEF Noticed, Due
<1>3. ShownInv' /\ CopiesBlank'
  BY <1>1 DEF EventsInv, ShownInv, BlankInv, CopiesBlank, Blank
<1>4. lag[c] = "event" => Due(c)'
  BY <1>1 DEF Due
<1>5. CASE informer[c] = Absent
  <2>1. UNCHANGED worker /\ pc = "idle"
    BY <1>5 DEF Start
  <2>2. server'[c] # Absent => Due(c)'
    BY <1>1, <1>4, <1>5 DEF EventsInv, ShownInv, Shows
  <2>3. NothingForgotten'
    BY <1>2, <2>2 DEF NothingForgotten, Noticed, Due
  <2>4. BlankInv' /\ SeenInv'
    BY <1>3, <2>1 DEF EventsInv, BlankInv, Blank, SeenInv, worker
  <2> QED BY <1>3, <2>3, <2>4 DEF EventsInv
<1>6. CASE informer[c] # Absent
  <2>1. pc' = FirstCall(informer[c]) /\ req' = c /\ inst' = informer[c]
    BY <1>6 DEF Start
  <2>2. NothingForgotten'
    BY <1>2, <2>1 DEF NothingForgotten, Noticed, Due
  <2>3. BlankInv'
    BY <1>1, <1>3, <2>1 DEF BlankInv, CopiesBlank, Blank
  <2>4. Due(c)' \/ Shows(inst', server'[c])
    BY <1>1, <1>4, <2>1 DEF EventsInv, ShownInv
  <2>5. /\ pc' \in {"update", "list", "cleanupStatus", "deletedStatus"}
        /\ pc' = "update" =>
              ~isInitialized(informer[c]) \/ "old" \in informer[c].fins
        /\ pc' = "list" =>
              ~informer[c].deleting /\ informer[c].status.phase # ""
        /\ pc' = "cleanupStatus" => informer[c].deleting
        /\ pc' = "deletedStatus" =>
              informer[c].deleting /\ ~HasOurFinalizer(informer[c])
    BY <2>1 DEF FirstCall, isInitialized, isBeingDeleted
  <2>6. SeenInv'
    BY <2>1, <2>4, <2>5
       DEF SeenInv, Due, Shows, isInitialized, isBeingDeleted, HasOurFinalizer
  <2> QED BY <1>3, <2>2, <2>3, <2>6 DEF EventsInv
<1> QED BY <1>5, <1>6

-----------------------------------------------------------------------------
(* The operator's surroundings.                                            *)

\* A change of the stored CR that the predicate drops and a user may make.
Alike(old, new) ==
    \/ new = old
    \/ /\ old # Absent /\ new # Absent
       /\ ~PassesPredicate(old, new)
       /\ new.status = old.status

LEMMA AlikeShows ==
    ASSUME NEW x, NEW y, Alike(x, y)
    PROVE  /\ Shows(x, y)
           /\ y # Absent /\ Unfinished(y) => x # Absent /\ Unfinished(x)
           /\ x # Absent => /\ y # Absent /\ y.deleting = x.deleting
                            /\ y.status = x.status
<1>1. CASE y = x
  BY <1>1 DEF Shows
<1>2. CASE /\ x # Absent /\ y # Absent /\ ~PassesPredicate(x, y)
           /\ y.status = x.status
  BY <1>2 DEF Shows, PassesPredicate, Unfinished, isInitialized,
              isBeingDeleted, HasOurFinalizer
<1> QED BY <1>1, <1>2 DEF Alike

\* What happens around a pass makes its CR due or leaves it as it was.
LEMMA AroundEvents ==
    ASSUME TypeOK, EventsInv, UNCHANGED <<pc, req, inst, todo>>,
           ShownInv', CopiesBlank',
           \A d \in CRs : Due(d) => Due(d)',
           \A d \in CRs : Due(d)' \/ Alike(server[d], server'[d])
    PROVE  EventsInv'
<1>1. BlankInv'
  BY DEF EventsInv, BlankInv, Blank
<1>2. ASSUME NEW d \in CRs, server'[d] # Absent, Unfinished(server'[d])
      PROVE  Noticed(d)' \/ d \in unreported'
  <2>1. CASE Due(d)'
    BY <2>1 DEF Due, Noticed
  <2>2. CASE ~Due(d)'
    <3>1. server[d] # Absent /\ Unfinished(server[d])
      BY <1>2, <2>2, AlikeShows
    <3>2. d = req
      BY <2>2, <3>1 DEF EventsInv, NothingForgotten, Noticed, Due
    <3> QED BY <3>2 DEF Noticed
  <2> QED BY <2>1, <2>2
<1>3. NothingForgotten'
  BY <1>2 DEF NothingForgotten, Noticed
<1>4. SeenInv'
  <2>1. CASE pc = "idle"
    BY <2>1 DEF SeenInv
  <2>2. CASE pc # "idle"
    <3>1. PICK c \in CRs : req = c
      BY <2>2, RequestType
    <3>2. CASE Due(c)'
      BY <3>1, <3>2 DEF EventsInv, SeenInv, Due, isInitialized,
                        isBeingDeleted, HasOurFinalizer
    <3>3. CASE ~Due(c)'
      <4>1. /\ ~Due(c) /\ Shows(server[c], server'[c])
            /\ server[c] # Absent =>
                  /\ server'[c] # Absent
                  /\ server'[c].deleting = server[c].deleting
                  /\ server'[c].status = server[c].status
        BY <3>3, AlikeShows
      <4>2. pc \in {"list", "deletedStatus"} => Shows(inst, server'[c])
        BY <3>1, <4>1, ShowsTransitive DEF EventsInv, SeenInv
      <4>3. pc \in {"list", "deletedStatus"} => Shows(inst, server[req])'
        BY <3>1, <4>2 DEF Shows
      <4>4. pc = "multiple" =>
               /\ server'[c] # Absent
               /\ ~server'[c].deleting /\ server'[c].status.phase # ""
               /\ c \in todo \/ server'[c].status.cond = "multiple"
        BY <3>1, <4>1 DEF EventsInv, SeenInv
      <4>5. pc # "progressing" /\ (pc = "updateStatus" => ~isInitialized(inst))
        BY <3>1, <4>1 DEF EventsInv, SeenInv
      <4> QED BY <3>1, <4>3, <4>4, <4>5
              DEF EventsInv, SeenInv, isInitialized, isBeingDeleted,
                  HasOurFinalizer
    <3> QED BY <3>2, <3>3
  <2> QED BY <2>1, <2>2
<1> QED BY <1>1, <1>3, <1>4 DEF EventsInv

LEMMA UserEvents ==
    ASSUME TypeOK, EventsInv, User
    PROVE  EventsInv'
<1>1. PICK c \in CRs, cr \in CR :
         /\ UserWrites(c, cr)
         /\ \/ server[c] = Absent /\ cr.status = NewStatus
            \/ server[c] \in CR /\ cr.status = server[c].status
  BY UserStep
<1>2. /\ Store(c, cr)
      /\ UNCHANGED <<pc, req, inst, todo, queue, delayed, awaiting, unreported>>
  BY <1>1 DEF UserWrites, events
<1>3. /\ informer' = informer
      /\ server'[c] \in {Absent, cr}
      /\ \A d \in CRs \ {c} : server'[d] = server[d]
  BY <1>2 DEF Store, Stored, TypeOK
<1>4. /\ \A d \in CRs : lag[d] = "event" => lag'[d] = "event"
      /\ lag'[c] = "event" \/ Shows(server[c], server'[c])
  BY <1>1, <1>2, StoreShown
<1>5. \A d \in CRs : Due(d) => Due(d)'
  BY <1>2, <1>4 DEF Due
<1>6. lag'[c] = "event" \/ Alike(server[c], server'[c])
  <2>1. CASE server[c] = Absent
    BY <1>4, <2>1 DEF Shows, Alike
  <2>2. CASE server[c] \in CR /\ cr.status = server[c].status
    BY <1>3, <1>4, <2>2 DEF Shows, Alike
  <2> QED BY <1>1, <2>1, <2>2
<1>7. \A d \in CRs : Due(d)' \/ Alike(server[d], server'[d])
  BY <1>3, <1>6 DEF Alike, Due
<1>8. ShownInv'
  BY <1>3, <1>4, ShowsTransitive DEF EventsInv, ShownInv, Shows
<1>9. CopiesBlank'
  <2>1. Blank(cr)
    <3>1. ~NewStatus.paused /\ NewStatus.cond = "unset"
      BY DEF NewStatus
    <3>2. Blank(server[c])
      BY DEF EventsInv, BlankInv, CopiesBlank
    <3> QED BY <1>1, <3>1, <3>2, ConstantsAssumption DEF Blank
  <2> QED BY <1>3, <2>1 DEF EventsInv, BlankInv, CopiesBlank, Blank
<1> QED BY <1>2, <1>5, <1>7, <1>8, <1>9, AroundEvents

LEMMA WatchesEvents ==
    ASSUME TypeOK, EventsInv, Watches \/ UNCHANGED vars
    PROVE  EventsInv'
<1>1. /\ server' = server /\ UNCHANGED <<pc, req, inst, todo>>
      /\ \A d \in CRs : \/ informer'[d] = informer[d] /\ lag'[d] = lag[d]
                        \/ informer'[d] = server[d]
      /\ \A d \in CRs : Due(d) => Due(d)'
  <2>1. CASE UNCHANGED vars
    BY <2>1 DEF vars, api, events, worker, ghosts, Due
  <2>2. ASSUME NEW c \in CRs, Deliver(c)
        PROVE  /\ server' = server /\ UNCHANGED <<pc, req, inst, todo>>
               /\ \A d \in CRs : \/ informer'[d] = informer[d] /\ lag'[d] = lag[d]
                                 \/ informer'[d] = server[d]
               /\ \A d \in CRs : Due(d) => Due(d)'
    BY <2>2 DEF Deliver, worker, ghosts, Due, TypeOK
  <2>3. ASSUME NEW c \in CRs,
               BackOffExpires(c) \/ ResourceGone(c) \/ ResourceChanged(c)
        PROVE  /\ UNCHANGED api /\ UNCHANGED <<pc, req, inst, todo>>
               /\ \A d \in CRs : Due(d) => Due(d)'
    BY <2>3 DEF BackOffExpires, ResourceGone, ResourceChanged, worker, ghosts,
                api, Due
  <2> QED BY <2>1, <2>2, <2>3 DEF Watches, api
<1>2. ShownInv' /\ CopiesBlank'
  BY <1>1 DEF EventsInv, ShownInv, BlankInv, CopiesBlank, Blank, Shows
<1> QED BY <1>1, <1>2, AroundEvents DEF Alike

\* After a crash the first list of the watch brings every CR.
LEMMA RestartEvents ==
    ASSUME TypeOK, EventsInv, Restart
    PROVE  EventsInv'
<1>1. /\ server' = server /\ informer' = server
      /\ pc' = "idle" /\ req' = Absent /\ inst' = Absent
      /\ queue' = {c \in CRs : server[c] # Absent}
  BY DEF Restart, Reboot
<1>2. ShownInv' /\ BlankInv' /\ SeenInv'
  BY <1>1 DEF EventsInv, ShownInv, Shows, BlankInv, CopiesBlank, Blank, SeenInv
<1>3. NothingForgotten'
  BY <1>1 DEF NothingForgotten, Noticed
<1> QED BY <1>2, <1>3 DEF EventsInv

LEMMA InitEvents == Init => EventsInv
<1> SUFFICES ASSUME Init PROVE EventsInv
  OBVIOUS
<1>1. PICK spec \in Deploys :
         server = [c \in CRs |-> IF c \in Legacy THEN LegacyCR(spec) ELSE Absent]
  BY DEF Init
<1>2. LegacyCR(spec).status.phase = "Deployed"
  BY DEF LegacyCR
<1>3. ShownInv /\ BlankInv /\ SeenInv
  BY <1>1, <1>2 DEF Init, ShownInv, Shows, BlankInv, CopiesBlank, Blank, SeenInv
<1>4. NothingForgotten
  BY <1>1 DEF Init, NothingForgotten, Noticed
<1> QED BY <1>3, <1>4 DEF EventsInv

LEMMA NextEvents ==
    TypeOK /\ StatusInv /\ EventsInv /\ [Next]_vars => EventsInv'
BY StartEvents, ListCRsEvents, ApiCallEvents, OperandCallEvents, UserEvents,
   RestartEvents, WatchesEvents DEF Next, Worker, Surroundings

\* However stale the copies, whatever is refused, lost or crashes in between:
\* a CR that has something to be done for it has a pass under way or to come
\* (Reconcile, handleError, cleanup, watchTektonResource).
THEOREM NothingForgottenAlways == Spec => []NothingForgotten
<1> DEFINE I == TypeOK /\ StatusInv /\ CacheInv /\ EventsInv
<1>1. Init => I
  BY InitType, InitStatus, InitEvents
<1>2. I /\ [Next]_vars => I'
  BY NextType, NextStatus, NextEvents
<1>3. I => NothingForgotten
  BY DEF EventsInv
<1> QED BY <1>1, <1>2, <1>3, PTL DEF Spec
=============================================================================
