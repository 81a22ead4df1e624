--------------------------- MODULE OperandResources ---------------------------
(***************************************************************************)
(* What the operands do to the resources of one TektonTasks CR:            *)
(* pkg/common/resource.go and cache.go, called by the Reconcile and        *)
(* Cleanup of pkg/tekton-tasks and pkg/tekton-pipelines.                   *)
(*                                                                         *)
(* A resource is looked up in an informer cache that lags the API server   *)
(* and then created, updated or deleted at the API server; users, garbage  *)
(* and a restart of the operator come between the two.  The passes of the  *)
(* CR's reconciler are reduced to what they ask of the operands: reconcile *)
(* them, or clean them up.                                                 *)
(***************************************************************************)
EXTENDS Naturals

CONSTANTS
    Tasks, Pipelines, ConfigMaps, RoleBindings, ClusterRoles,
    ServiceAccounts,  \* names per kind, all from the bundles
    ClusterTasks,     \* names of what older operators deployed for the CR
    FixedBindings,    \* role bindings whose namespace the bundle gives
    PipelineAccounts, \* service accounts named "pipeline"
    Namespaces,     \* namespaces of the cluster
    OwnNs,          \* the one the CR lives in
    NoNs,           \* the empty namespace
    FixedNs,        \* the namespace of FixedBindings
    SystemNs,       \* namespaces whose names start with openshift- or kube-
    Gates,          \* values users give featureGates.deployTektonTaskResources
    TaskNs,         \* values users give spec.tasks.namespace
    PipelineNs,     \* values users give spec.pipelines.namespace
    Absent,         \* "there is no such object"
    Lagging,        \* whether informers of resources fall behind
    Referencing,    \* whether somebody adds owner references
    MaxWrites,      \* bound: writes of users
    MaxRestarts,    \* bound: restarts of the operator
    MaxApiErrors    \* bound: API calls that fail for no reason of the object's

\* What Reconcile and Cleanup of the two operands go through.
Shared           == ClusterRoles \cup RoleBindings \cup ServiceAccounts
TasksOperand     == Tasks \cup Shared \cup ClusterTasks
PipelinesOperand == Pipelines \cup ConfigMaps \cup Shared
Resources        == TasksOperand \cup PipelinesOperand

ClusterScoped == ClusterRoles \cup ClusterTasks

\* Kinds whose objects count generations; the others leave it 0.
Generational == Tasks \cup Pipelines \cup ClusterTasks

\* WatchClusterTypes of the two operands; it names ClusterTask, not Task.
Watched     == Pipelines \cup ConfigMaps \cup Shared \cup ClusterTasks

\* Kinds with an updateFunc that restores more than labels and annotations.
Restored    == Resources \ ServiceAccounts

Keys == {k \in Resources \X (Namespaces \cup {NoNs}) :
            (k[2] = NoNs) <=> (k[1] \in ClusterScoped)}

Specs == [deploy : Gates, tasks : TaskNs, pipelines : PipelineNs]

\* The zero TektonTasksSpec of an empty cache.
ZeroSpec == [deploy |-> FALSE, tasks |-> NoNs, pipelines |-> NoNs]

\* data: is the spec, rules or data the template's; owner: are labels and
\* annotations, the owner's among them, those of the CR ("cr"), and are they
\* together with an owner reference to something else ("ref"); held: somebody
\* else's finalizer keeps the object.
Object == [uid      : Nat,
           rv       : Nat,
           gen      : Nat,
           data     : {"template", "edited"},
           owner    : {"cr", "ref", "other"},
           held     : BOOLEAN,
           deleting : BOOLEAN]

Entry == [uid : Nat, rv : Nat, gen : Nat]

ASSUME ResourcesAssumption ==
    /\ Absent \notin Object
    /\ Absent \notin Entry
    /\ Absent \notin Resources
    /\ OwnNs \in Namespaces
    /\ NoNs \notin Namespaces
    /\ FixedNs \in Namespaces
    /\ FixedBindings \subseteq RoleBindings
    /\ PipelineAccounts \subseteq ServiceAccounts
    /\ Gates \subseteq BOOLEAN
    /\ TaskNs \subseteq Namespaces \cup {NoNs}
    /\ PipelineNs \subseteq Namespaces \cup {NoNs}
    /\ Tasks \cap (PipelinesOperand \cup ClusterTasks) = {}
    /\ ClusterRoles \cap (Pipelines \cup ConfigMaps \cup RoleBindings
                            \cup ServiceAccounts) = {}
    /\ RoleBindings \cap (Pipelines \cup ConfigMaps \cup ServiceAccounts) = {}
    /\ ServiceAccounts \cap (Pipelines \cup ConfigMaps) = {}
    /\ ClusterTasks \cap PipelinesOperand = {}
    /\ Lagging \in BOOLEAN
    /\ Referencing \in BOOLEAN
    /\ MaxWrites \in Nat
    /\ MaxRestarts \in Nat
    /\ MaxApiErrors \in Nat

VARIABLES
    \* --- the cluster ---
    server,     \* the objects the API server stores
    informer,   \* the copies the operator's caches hold
    news,       \* keys with an event on its way that the controller reacts to
    life,       \* of the CR: "absent", "live" or "deleting"
    spec,       \* of the CR
    nextUid,    \* the uid of the next object
    \* --- the operator ---
    queued,     \* the CR's name is in the work queue
    pc,         \* what the worker does: see PCs
    todo,       \* resources the current loop has still to look at
    cur,        \* the resource whose API call is next, else Absent
    found,      \* its copy out of the informer, before mutation
    pending,    \* the cleanup met a resource that was still there
    pass,       \* the spec the pass has read
    place,      \* Namespace fields of the resource templates in memory
    vcache,     \* VersionCache
    lastSpec,   \* lastTektonTasksSpec
    \* --- history, read by no step of the operator ---
    overlooked, \* what the last cleanup has passed over, see Overlooked
    \* --- what the bounds count ---
    writes, restarts, apiErrors

objects == <<server, informer, news>>
cluster == <<objects, life, spec, nextUid>>
worker  == <<pc, todo, cur, found, pending, pass>>
memory  == <<place, vcache, lastSpec>>
counts  == <<writes, restarts, apiErrors>>
vars    == <<cluster, queued, worker, memory, overlooked, counts>>

PCs == {"idle", "reconcile", "write", "cleanup", "delete"}

TypeOK ==
    /\ server    \in [Keys -> Object \cup {Absent}]
    /\ informer  \in [Keys -> Object \cup {Absent}]
    /\ news      \subseteq Keys
    /\ life      \in {"absent", "live", "deleting"}
    /\ spec      \in Specs
    /\ nextUid   \in Nat
    /\ queued    \in BOOLEAN
    /\ pc        \in PCs
    /\ todo      \subseteq Resources
    /\ cur       \in Resources \cup {Absent}
    /\ found     \in Object \cup {Absent}
    /\ pending   \in BOOLEAN
    /\ pass      \in Specs
    /\ place     \in [Resources -> Namespaces \cup {NoNs}]
    /\ vcache    \in [Keys -> Entry \cup {Absent}]
    /\ lastSpec  \in Specs \cup {ZeroSpec}
    /\ overlooked \subseteq Keys
    /\ writes    \in 0..MaxWrites
    /\ restarts  \in 0..MaxRestarts
    /\ apiErrors \in 0..MaxApiErrors
    /\ (cur # Absent) <=> (pc \in {"write", "delete"})

-----------------------------------------------------------------------------
(* Templates and the version cache.                                        *)

\* Where a reconcile function puts its resource.
TasksPlace(s) == IF s.tasks = NoNs THEN OwnNs ELSE s.tasks

PipelinesPlace(s) == s.pipelines

PlaceOf(r, s) ==
    CASE r \in Tasks                          -> TasksPlace(s)
      [] r \in FixedBindings                  -> FixedNs
      [] r \in RoleBindings \ FixedBindings   -> OwnNs
      [] r \in ServiceAccounts                -> OwnNs
      [] r \in ClusterScoped                  -> NoNs
      [] OTHER                                -> PipelinesPlace(s)

\* The templates fresh from the bundle.
BundlePlaces == [r \in Resources |-> IF r \in FixedBindings THEN FixedNs ELSE NoNs]

\* What is reconciled: the account of pipelines only for a system namespace.
Deployed(s) ==
    (Resources \ ClusterTasks) \ (IF s.pipelines \in SystemNs THEN {} ELSE PipelineAccounts)

\* Get through the informer cache; no namespaced object is without namespace.
Cached(k) == IF k \in Keys THEN informer[k] ELSE Absent

\* Mutants: Contains forgets the uid, or the generation.
MutantContainsNoUid(k, o) ==
    /\ vcache[k] # Absent
    /\ IF o.gen = 0 THEN o.rv = vcache[k].rv ELSE o.gen = vcache[k].gen

MutantContainsNoVersion(k, o) ==
    /\ vcache[k] # Absent
    /\ o.uid = vcache[k].uid

Contains(k, o) ==
    /\ vcache[k] # Absent
    /\ o.uid = vcache[k].uid
    /\ IF o.gen = 0 THEN o.rv = vcache[k].rv ELSE o.gen = vcache[k].gen

Add(k, o) ==
    vcache' = [vcache EXCEPT ![k] = [uid |-> o.uid, rv |-> o.rv, gen |-> o.gen]]

\* mutateFn on an object that exists: metadata always, data unless cached.
Mutated(k, o) ==
    [o EXCEPT !.owner = "cr",
              !.data  = IF k[1] \in Restored /\ ~Contains(k, o) THEN "template" ELSE @]

Terminating(o) == o # Absent /\ o.deleting

AsDesired(k, o) == o # Absent /\ Mutated(k, o) = o

-----------------------------------------------------------------------------
(* The API server.                                                         *)

Owned(o) == o # Absent /\ o.owner \in {"cr", "ref"}

\* isResourceOwned meets a reference and has none to compare it with: the
\* expected object has one only in the CR's namespace, or if it is the listed
\* copy of the found one.
Panics(k, o) ==
    o # Absent /\ o.owner = "ref" /\ k[2] # OwnNs /\ k[1] \notin ClusterTasks

\* listDeprecatedClusterTasks
DeprecatedClusterTasks == {c \in ClusterTasks : Owned(informer[<<c, NoNs>>])}

\* EnqueueRequestForAnnotation: the old or the new object names the CR.
Reported(k, old, new) == k[1] \in Watched /\ old # new /\ (Owned(old) \/ Owned(new))

\* Replace the object at k; without lag the informer hears of it at once.
SetObject(k, o) ==
    LET reported == Reported(k, server[k], o) IN
    /\ server' = [server EXCEPT ![k] = o]
    /\ IF Lagging
       THEN /\ informer' = informer
            /\ news' = IF reported THEN news \cup {k} ELSE news
            /\ queued' = queued
       ELSE /\ informer' = [informer EXCEPT ![k] = o]
            /\ news' = news
            /\ queued' = (queued \/ reported)

NextVersion(k, old, new) ==
    [new EXCEPT !.rv = old.rv + 1,
                !.gen = IF k[1] \in Generational /\ old.data # new.data
                        THEN @ + 1 ELSE @]

NewObject(k, data, owner) ==
    [uid |-> nextUid, rv |-> 1, gen |-> IF k[1] \in Generational THEN 1 ELSE 0,
     data |-> data, owner |-> owner, held |-> FALSE, deleting |-> FALSE]

\* A deletion request; a finalizer of somebody else's keeps the object.
Removed(o) ==
    CASE o.held /\ ~o.deleting -> [o EXCEPT !.deleting = TRUE, !.rv = @ + 1]
      [] o.held /\ o.deleting  -> o
      [] OTHER                 -> Absent

CountError(a) == apiErrors' = apiErrors + IF a = "Error" THEN 1 ELSE 0

MayFail == IF apiErrors < MaxApiErrors THEN {"Error"} ELSE {}

-----------------------------------------------------------------------------
(* The worker.                                                             *)

clearCacheIfNeeded ==
    /\ vcache' = IF lastSpec = spec THEN vcache ELSE [k \in Keys |-> Absent]
    /\ lastSpec' = spec
    /\ place' = place

clearCache ==
    /\ vcache' = [k \in Keys |-> Absent]
    /\ lastSpec' = ZeroSpec
    /\ place' = place

\* Reconcile reads the CR and turns to the operands.
Start ==
    /\ pc = "idle"
    /\ queued
    /\ queued' = FALSE
    /\ \/ /\ life = "absent"
          /\ UNCHANGED <<worker, memory, overlooked>>
       \/ /\ life = "live"
          /\ clearCacheIfNeeded
          /\ pc' = IF spec.deploy THEN "reconcile" ELSE "idle"
          /\ todo' = IF spec.deploy THEN Deployed(spec) ELSE {}
          /\ pass' = spec
          /\ UNCHANGED <<cur, found, pending, overlooked>>
       \/ /\ life = "deleting"
          /\ clearCacheIfNeeded
          /\ pc' = "cleanup"
          /\ todo' = (Resources \ ClusterTasks) \cup DeprecatedClusterTasks
          /\ pending' = FALSE
          /\ overlooked' = {}
          /\ UNCHANGED <<cur, found, pass>>
    /\ UNCHANGED <<cluster, counts>>

\* Mutant: the error is swallowed, nothing is tried again.
MutantAbortForgets ==
    /\ pc' = "idle"
    /\ todo' = {}
    /\ cur' = Absent
    /\ found' = Absent
    /\ UNCHANGED <<queued, pending, pass>>

\* The pass fails and is tried again.
Abort ==
    /\ pc' = "idle"
    /\ todo' = {}
    /\ cur' = Absent
    /\ found' = Absent
    /\ queued' = TRUE
    /\ UNCHANGED <<pending, pass>>

\* Mutant: the resource of the call before is kept.
MutantKeepsCur(loop) ==
    /\ pc' = loop
    /\ found' = Absent
    /\ UNCHANGED <<cur, todo, pass>>

\* The API call for cur is done; on to the rest of the loop.
NextResource(loop) ==
    /\ pc' = loop
    /\ cur' = Absent
    /\ found' = Absent
    /\ UNCHANGED <<todo, pass>>

\* reconcileBuilder.Reconcile up to its API call, if it needs one: an object
\* that is being deleted is left alone, one that is as it should be is cached.
ReconcileResource(r) ==
    LET ns == PlaceOf(r, pass)
        k  == <<r, ns>>
        o  == Cached(k)
    IN  /\ pc = "reconcile"
        /\ r \in todo
        /\ todo' = todo \ {r}
        /\ place' = [place EXCEPT ![r] = ns]
        /\ \/ /\ Terminating(o)
              /\ vcache' = [vcache EXCEPT ![k] = Absent]
              /\ UNCHANGED <<pc, cur, found>>
           \/ /\ ~Terminating(o) /\ AsDesired(k, o)
              /\ Add(k, o)
              /\ UNCHANGED <<pc, cur, found>>
           \/ /\ ~Terminating(o) /\ ~AsDesired(k, o)
              /\ pc' = "write"
              /\ cur' = r
              /\ found' = o
              /\ UNCHANGED vcache
        /\ UNCHANGED <<cluster, queued, pending, pass, lastSpec, overlooked, counts>>

\* The object Create returns has no kind, so it is not cached.
CreateResource(a) ==
    LET k == <<cur, place[cur]>> IN
    /\ pc = "write"
    /\ found = Absent
    /\ a \in MayFail \cup {IF k \in Keys /\ server[k] = Absent THEN "OK" ELSE "Refused"}
    /\ CountError(a)
    /\ IF a = "OK"
       THEN /\ SetObject(k, NewObject(k, "template", "cr"))
            /\ nextUid' = nextUid + 1
            /\ NextResource("reconcile")
            /\ UNCHANGED pending
       ELSE Abort /\ UNCHANGED <<objects, nextUid>>
    /\ UNCHANGED <<life, spec, memory, overlooked, writes, restarts>>

SameVersion(o, p) == p # Absent /\ o.uid = p.uid /\ o.rv = p.rv

UpdateResource(a) ==
    LET k   == <<cur, place[cur]>>
        new == NextVersion(k, found, Mutated(k, found))
    IN  /\ pc = "write"
        /\ found # Absent
        /\ a \in MayFail \cup {IF SameVersion(found, server[k]) THEN "OK" ELSE "Refused"}
        /\ CountError(a)
        /\ IF a = "OK"
           THEN /\ SetObject(k, new)
                /\ Add(k, new)
                /\ NextResource("reconcile")
                /\ UNCHANGED pending
           ELSE Abort /\ UNCHANGED <<objects, vcache>>
        /\ UNCHANGED <<life, spec, nextUid, place, lastSpec, overlooked, writes, restarts>>

FinishReconcile ==
    /\ pc = "reconcile"
    /\ todo = {}
    /\ pc' = "idle"
    /\ UNCHANGED <<cluster, queued, todo, cur, found, pending, pass, memory, overlooked,
                   counts>>

\* What belongs to the CR under the name of r and is not what the lookup shows:
\* the template does not point there, or the informer has not heard of it.
Overlooked(r) ==
    {k \in Keys : /\ k[1] = r
                  /\ Owned(server[k])
                  /\ ~(k[2] = place[r] /\ Owned(informer[k]))}

\* Mutant: an object that is already being deleted counts as gone.
MutantTerminatingIsGone(r) ==
    LET o == Cached(<<r, place[r]>>) IN
    /\ pc = "cleanup"
    /\ r \in todo
    /\ todo' = todo \ {r}
    /\ IF Owned(o) /\ ~o.deleting
       THEN pc' = "delete" /\ cur' = r /\ found' = o
       ELSE UNCHANGED <<pc, cur, found>>
    /\ overlooked' = overlooked \cup Overlooked(r)
    /\ UNCHANGED <<cluster, queued, pending, pass, memory, counts>>

\* Cleanup up to its Delete, if it needs one.
CleanupResource(r) ==
    LET o == Cached(<<r, place[r]>>) IN
    /\ pc = "cleanup"
    /\ r \in todo
    /\ ~Panics(<<r, place[r]>>, o)
    /\ todo' = todo \ {r}
    /\ IF Owned(o) /\ ~o.deleting
       THEN pc' = "delete" /\ cur' = r /\ found' = o /\ UNCHANGED pending
       ELSE pending' = (pending \/ Owned(o)) /\ UNCHANGED <<pc, cur, found>>
    /\ overlooked' = overlooked \cup Overlooked(r)
    /\ UNCHANGED <<cluster, queued, pass, memory, counts>>

\* Delete carries the name only, no uid or version.
DeleteResource(a) ==
    LET k == <<cur, place[cur]>> IN
    /\ pc = "delete"
    /\ a \in MayFail \cup {IF server[k] = Absent THEN "NotFound" ELSE "OK"}
    /\ CountError(a)
    /\ \/ /\ a = "OK"
          /\ SetObject(k, Removed(server[k]))
          /\ pending' = TRUE
          /\ NextResource("cleanup")
       \/ /\ a = "NotFound"
          /\ NextResource("cleanup")
          /\ UNCHANGED <<objects, queued, pending>>
       \/ /\ a = "Error"
          /\ Abort
          /\ UNCHANGED objects
    /\ UNCHANGED <<life, spec, nextUid, memory, overlooked, writes, restarts>>

\* Nothing pending: the finalizer is removed and the CR leaves.  Otherwise the
\* pass ends, and only an event of a watched resource brings the next one.
FinishCleanup ==
    /\ pc = "cleanup"
    /\ todo = {}
    /\ pc' = "idle"
    /\ clearCache
    /\ life' = IF pending THEN life ELSE "absent"
    /\ UNCHANGED <<objects, spec, nextUid, queued, todo, cur, found,
                   pending, pass, overlooked, counts>>

\* The process starts, its templates fresh from the bundle.
Reboot ==
    /\ informer' = server
    /\ news' = {}
    /\ queued' = (life # "absent")
    /\ pc' = "idle"
    /\ todo' = {}
    /\ cur' = Absent
    /\ found' = Absent
    /\ pending' = FALSE
    /\ place' = BundlePlaces
    /\ vcache' = [k \in Keys |-> Absent]
    /\ lastSpec' = ZeroSpec
    /\ UNCHANGED <<server, life, spec, nextUid, pass, overlooked>>

\* The panic ends the process, which is started again.
CleanupPanics(r) ==
    /\ pc = "cleanup"
    /\ r \in todo
    /\ Panics(<<r, place[r]>>, Cached(<<r, place[r]>>))
    /\ Reboot
    /\ UNCHANGED counts

Answers == {"OK", "Refused", "NotFound", "Error"}

Worker ==
    \/ \E r \in Resources : ReconcileResource(r) \/ CleanupResource(r) \/ CleanupPanics(r)
    \/ \E a \in Answers : CreateResource(a) \/ UpdateResource(a) \/ DeleteResource(a)
    \/ FinishReconcile
    \/ FinishCleanup

-----------------------------------------------------------------------------
(* The operator's surroundings.                                            *)

\* The informer of k catches up, and reports what happened on the way.
Deliver(k) ==
    /\ informer[k] # server[k] \/ k \in news
    /\ informer' = [informer EXCEPT ![k] = server[k]]
    /\ news' = news \ {k}
    /\ queued' = (queued \/ k \in news)
    /\ UNCHANGED <<server, life, spec, nextUid, worker, memory, overlooked, counts>>

Restart ==
    /\ restarts < MaxRestarts
    /\ restarts' = restarts + 1
    /\ Reboot
    /\ UNCHANGED <<writes, apiErrors>>

UserActs ==
    /\ writes < MaxWrites
    /\ writes' = writes + 1
    /\ UNCHANGED <<worker, memory, overlooked, restarts, apiErrors>>

UserWrites(k, o) ==
    /\ UserActs
    /\ SetObject(k, o)
    /\ UNCHANGED <<life, spec>>

EditObject(k, field, value) ==
    /\ server[k] # Absent
    /\ server[k][field] # value
    /\ UserWrites(k, NextVersion(k, server[k], [server[k] EXCEPT ![field] = value]))
    /\ UNCHANGED nextUid

ReleaseObject(k) ==
    /\ server[k] # Absent
    /\ server[k].held
    /\ UserWrites(k, IF server[k].deleting THEN Absent
                     ELSE NextVersion(k, server[k], [server[k] EXCEPT !.held = FALSE]))
    /\ UNCHANGED nextUid

DeleteObject(k) ==
    /\ server[k] # Absent
    /\ ~server[k].deleting
    /\ UserWrites(k, Removed(server[k]))
    /\ UNCHANGED nextUid

CreateObject(k) ==
    /\ server[k] = Absent
    /\ UserWrites(k, NewObject(k, "edited", "other"))
    /\ nextUid' = nextUid + 1

\* The CR's own events; its informer is modelled by TektonTasksController.
ChangeCR(from, to, s) ==
    /\ life = from
    /\ life' = to
    /\ spec' = s
    /\ queued' = TRUE
    /\ UserActs
    /\ UNCHANGED <<objects, nextUid>>

User ==
    \/ \E k \in Keys :
          \/ EditObject(k, "data", "edited")
          \/ EditObject(k, "owner", "other")
          \/ Referencing /\ Owned(server[k]) /\ EditObject(k, "owner", "ref")
          \/ server[k] # Absent /\ ~server[k].deleting /\ EditObject(k, "held", TRUE)
          \/ ReleaseObject(k)
          \/ DeleteObject(k)
          \/ CreateObject(k)
    \/ \E s \in Specs : ChangeCR("absent", "live", s) \/ ChangeCR("live", "live", s)
    \/ ChangeCR("live", "deleting", spec)

\* What an older operator may have left of a CR that is there.
Legacy(k) ==
    IF k[1] \in ClusterTasks /\ life = "live"
    THEN {[uid |-> 0, rv |-> 1, gen |-> 1, data |-> "template", owner |-> "cr",
           held |-> FALSE, deleting |-> FALSE], Absent}
    ELSE {Absent}

Init ==
    /\ life \in {"absent", "live"}
    /\ server \in [Keys -> UNION {Legacy(k) : k \in Keys}]
    /\ \A k \in Keys : server[k] \in Legacy(k)
    /\ informer = server
    /\ news = {}
    /\ spec \in Specs
    /\ nextUid = 1
    /\ queued = (life = "live")
    /\ pc = "idle"
    /\ todo = {}
    /\ cur = Absent
    /\ found = Absent
    /\ pending = FALSE
    /\ pass = spec
    /\ place = BundlePlaces
    /\ vcache = [k \in Keys |-> Absent]
    /\ lastSpec = ZeroSpec
    /\ overlooked = {}
    /\ writes = 0
    /\ restarts = 0
    /\ apiErrors = 0

Next == Start \/ Worker \/ Restart \/ User \/ \E k \in Keys : Deliver(k)

Spec == Init /\ [][Next]_vars

\* The worker and the informers do not stop.
Fairness ==
    /\ WF_vars(Start)
    /\ WF_vars(Worker)
    /\ \A k \in Keys : WF_vars(Deliver(k))

FairSpec == Spec /\ Fairness

-----------------------------------------------------------------------------
(* Properties.                                                             *)

\* An object whose version the cache holds has the template's data: skipping
\* updateFunc for it never leaves an edit in place, although objects come and
\* go under the same name and the informer lags (VersionCache.Contains).
CacheSound ==
    \A k \in Keys : \A o \in {server[k], informer[k]} :
        k[1] \in Restored /\ o # Absent /\ Contains(k, o) => o.data = "template"

\* The CR asks for the resource at k.
Wanted(k) ==
    life = "live" /\ spec.deploy /\ k[1] \in Deployed(spec) /\ k[2] = PlaceOf(k[1], spec)

AsTemplate(k) ==
    LET o == server[k] IN
    /\ o # Absent
    /\ \/ o.deleting
       \/ o.owner = "cr" /\ (k[1] \in Restored => o.data = "template")

\* Whatever users do to a watched resource of a live CR is undone, unless the
\* resource is being deleted: the event is never lost between the informer, the
\* version cache and a conflicting write.
EditsAreReverted ==
    \A k \in Keys :
        (k[1] \in Watched /\ Wanted(k) /\ ~AsTemplate(k))
        ~> (~Wanted(k) \/ AsTemplate(k))

\* A finalizer that is not the operator's keeps a resource.
Held == \E k \in Keys : server[k] # Absent /\ server[k].held

\* A reference to another owner makes the cleanup of a resource panic.
Referenced == \E k \in Keys : Owned(server[k]) /\ server[k].owner = "ref"

\* controllers/tektontasks_controller.go:379: a cleanup that left resources
\* pending is tried again, so that a CR being deleted leaves at some time.
CleanupEnds == (life = "deleting") ~> (life = "absent" \/ Held \/ Referenced)

\* A CR that has left leaves nothing behind but what its last cleanup looked for
\* in the wrong place or could not yet see: no failed or refused call, no object
\* that is slow to go, no panic, crash or retry in the middle of a cleanup makes
\* it forget a resource it has seen (Cleanup, cleanup).
OnlyOverlookedLeft ==
    life = "absent" => \A k \in Keys : Owned(server[k]) => k \in overlooked

\* pkg/operands/operands.go:22: Cleanup removes any created cluster resources.
NothingLeft == life = "absent" => \A k \in Keys : ~Owned(server[k])
=============================================================================
