---------------------- MODULE OperandResources_cleanup ----------------------
(***************************************************************************)
(* What a CR leaves behind.  A cleanup walks the templates in memory and   *)
(* asks the informer, not the API server, so it may pass over a resource   *)
(* of the CR; Overlooked says which.  The proof shows that this is the     *)
(* only way for one to be left: between the start of a cleanup and the     *)
(* departure of the CR every resource that it saw is either still on the   *)
(* cleanup's list, about to be deleted or remembered as pending, whatever  *)
(* users, informers, failing calls and restarts do in between.             *)
(***************************************************************************)
EXTENDS OperandResources_proofs

OwnedKeys == {k \in Keys : Owned(server[k])}

\* Only older operators made ClusterTasks, so the informer knows those that
\* still belong to the CR, and no pass has to do with them before a cleanup.
LegacyInv ==
    /\ \A k \in OwnedKeys : k[1] \in ClusterTasks => Owned(informer[k])
    /\ pc \in {"reconcile", "write"} => (todo \cup {cur}) \cap ClusterTasks = {}

\* What the cleanup has neither passed over nor found pending it has still to
\* look at or is about to delete.
ProgressInv ==
    /\ life = "absent" => pc = "idle" /\ OwnedKeys \subseteq overlooked
    /\ pc \in {"cleanup", "delete"} => life = "deleting"
    /\ pc \in {"cleanup", "delete"} /\ ~pending =>
          \A k \in OwnedKeys \ overlooked : k[1] \in todo \/ (pc = "delete" /\ k = Current)

CleanupInv == LegacyInv /\ ProgressInv

-----------------------------------------------------------------------------
(* Whose an object is.                                                     *)

LEMMA NextVersionOwner ==
    ASSUME NEW k, NEW old \in Object, NEW new \in Object
    PROVE  NextVersion(k, old, new).owner = new.owner
<1> DEFINE n == [new EXCEPT !.rv = old.rv + 1]
<1>1. n.owner = new.owner /\ n \in Object
  <2>1. old.rv + 1 \in Nat
    BY Fields
  <2> QED BY <2>1 DEF Object
<1>2. \A g : [n EXCEPT !.gen = g].owner = n.owner
  BY <1>1 DEF Object
<1>3. NextVersion(k, old, new) =
          [n EXCEPT !.gen = IF k[1] \in Generational /\ old.data # new.data
                            THEN new.gen + 1 ELSE new.gen]
  BY <1>1 DEF NextVersion, Object
<1> QED BY <1>1, <1>2, <1>3

LEMMA RemovedOwner ==
    ASSUME NEW o \in Object
    PROVE  Removed(o) = Absent \/ (Removed(o) \in Object /\ Removed(o).owner = o.owner)
<1>1. o.rv + 1 \in Nat /\ o.held \in BOOLEAN
  BY DEF Object
<1> QED BY <1>1 DEF Removed, Object

\* A write changes hands of its key alone, and the informer keeps its copy or,
\* without lag, takes the new one.
LEMMA WriteOwned ==
    ASSUME TypeInv, NEW k \in Keys, NEW o \in Object \cup {Absent}, SetObject(k, o)
    PROVE  /\ \A j \in Keys \ {k} : server'[j] = server[j] /\ informer'[j] = informer[j]
           /\ server'[k] = o
           /\ informer'[k] \in {informer[k], o}
           /\ OwnedKeys' = IF Owned(o) THEN OwnedKeys \cup {k} ELSE OwnedKeys \ {k}
<1>1. /\ server' = [server EXCEPT ![k] = o]
      /\ informer' \in {informer, [informer EXCEPT ![k] = o]}
      /\ server \in [Keys -> Object \cup {Absent}]
      /\ informer \in [Keys -> Object \cup {Absent}]
  BY DEF SetObject, TypeInv, TypeOK
<1>2. \A j \in Keys : server'[j] = IF j = k THEN o ELSE server[j]
  BY <1>1
<1> QED BY <1>1, <1>2 DEF OwnedKeys, Owned

\* If nothing becomes the CR's and informers forget no ClusterTask of it, what
\* users and informers do is no matter.
LEMMA FewerOwned ==
    ASSUME CleanupInv, OwnedKeys' \subseteq OwnedKeys,
           \A k \in OwnedKeys' : k[1] \in ClusterTasks => Owned(informer[k])',
           UNCHANGED <<life, pc, cur, todo, pending, place, overlooked>>
    PROVE  CleanupInv'
BY DEF CleanupInv, LegacyInv, ProgressInv, Current

LEMMA SameOwned ==
    ASSUME server' = server
    PROVE  OwnedKeys' = OwnedKeys
BY DEF OwnedKeys, Owned

-----------------------------------------------------------------------------
(* The steps of users and informers: none makes an object the CR's.        *)

\* An object is written that is not the CR's or was before.
LEMMA KeptByWrite ==
    ASSUME TypeInv, CleanupInv, NEW k \in Keys, NEW o \in Object \cup {Absent},
           SetObject(k, o), Owned(o) => Owned(server[k])
    PROVE  /\ OwnedKeys' \subseteq OwnedKeys
           /\ \A j \in OwnedKeys' : j[1] \in ClusterTasks => Owned(informer[j])'
<1>1. OwnedKeys' \subseteq OwnedKeys
  <2>1. Owned(o) => k \in OwnedKeys
    BY DEF OwnedKeys
  <2> QED BY <2>1, WriteOwned
<1>2. ASSUME NEW j \in OwnedKeys', j[1] \in ClusterTasks
      PROVE  Owned(informer'[j])
  <2>1. j \in Keys /\ Owned(informer[j]) /\ Owned(server'[j])
    BY <1>1, <1>2 DEF OwnedKeys, CleanupInv, LegacyInv, Owned
  <2> QED BY <2>1, WriteOwned
<1> QED BY <1>1, <1>2 DEF Owned

LEMMA UserWriteCleanup ==
    ASSUME TypeInv, CleanupInv, NEW k \in Keys, NEW o \in Object \cup {Absent},
           UserWrites(k, o), Owned(o) => Owned(server[k])
    PROVE  CleanupInv'
<1>1. SetObject(k, o) /\ UNCHANGED <<life, pc, cur, todo, pending, place, overlooked>>
  BY DEF UserWrites, UserActs, worker, memory
<1> QED BY <1>1, KeptByWrite, FewerOwned

LEMMA EditCleanup ==
    ASSUME TypeInv, CleanupInv, NEW k \in Keys,
           NEW field \in {"data", "owner", "held"}, NEW value,
           field = "data" => value = "edited",
           field = "owner" => value \in {"ref", "other"},
           field = "held" => value = TRUE,
           field = "owner" /\ value = "ref" => Owned(server[k]),
           EditObject(k, field, value)
    PROVE  CleanupInv'
<1> DEFINE o == [server[k] EXCEPT ![field] = value]
<1>1. server[k] \in Object /\ server[k] # Absent
  BY DEF EditObject, TypeInv, TypeOK
<1>2. o \in Object
  BY <1>1, EditFacts
<1>3. o.owner = IF field = "owner" THEN value ELSE server[k].owner
  BY <1>1 DEF Object
<1>4. UserWrites(k, NextVersion(k, server[k], o))
  BY DEF EditObject
<1> HIDE DEF o
<1>5. NextVersion(k, server[k], o) \in Object
      /\ NextVersion(k, server[k], o).owner = o.owner
  BY <1>1, <1>2, NextVersionFacts, NextVersionOwner
<1>6. Owned(NextVersion(k, server[k], o)) => Owned(server[k])
  BY <1>1, <1>3, <1>5 DEF Owned
<1> QED BY <1>4, <1>5, <1>6, UserWriteCleanup

LEMMA ChangeCRCleanup ==
    ASSUME CleanupInv, NEW from, NEW to, NEW s, ChangeCR(from, to, s),
           to \in {"live", "deleting"}, from # "deleting"
    PROVE  CleanupInv'
<1>1. /\ life = from /\ life' = to
      /\ UNCHANGED <<server, informer, pc, cur, todo, pending, place, overlooked>>
  BY DEF ChangeCR, UserActs, objects, worker, memory
<1>2. OwnedKeys' = OwnedKeys
  BY <1>1, SameOwned
<1>3. pc \notin {"cleanup", "delete"}
  BY <1>1 DEF CleanupInv, ProgressInv
<1> QED BY <1>1, <1>2, <1>3 DEF CleanupInv, LegacyInv, ProgressInv, Owned

LEMMA UserCleanup ==
    ASSUME TypeInv, CleanupInv, User
    PROVE  CleanupInv'
<1>1. ASSUME NEW k \in Keys,
             \/ EditObject(k, "data", "edited") \/ EditObject(k, "held", TRUE)
             \/ EditObject(k, "owner", "other")
             \/ Owned(server[k]) /\ EditObject(k, "owner", "ref")
      PROVE  CleanupInv'
  <2>1. CASE EditObject(k, "data", "edited")
    BY <2>1, EditCleanup
  <2>2. CASE EditObject(k, "held", TRUE)
    BY <2>2, EditCleanup
  <2>3. CASE EditObject(k, "owner", "other")
    BY <2>3, EditCleanup
  <2>4. CASE Owned(server[k]) /\ EditObject(k, "owner", "ref")
    BY <2>4, EditCleanup
  <2> QED BY <1>1, <2>1, <2>2, <2>3, <2>4
<1>2. ASSUME NEW k \in Keys, ReleaseObject(k)
      PROVE  CleanupInv'
  <2> DEFINE o == [server[k] EXCEPT !.held = FALSE]
  <2>1. server[k] \in Object /\ server[k] # Absent
    BY <1>2 DEF ReleaseObject, TypeInv, TypeOK
  <2>2. o \in Object /\ o.owner = server[k].owner
    BY <2>1 DEF Object
  <2> HIDE DEF o
  <2>3. NextVersion(k, server[k], o) \in Object
        /\ (Owned(NextVersion(k, server[k], o)) => Owned(server[k]))
    BY <2>1, <2>2, NextVersionFacts, NextVersionOwner DEF Owned
  <2> QED BY <1>2, <2>3, UserWriteCleanup DEF ReleaseObject, Owned, o
<1>3. ASSUME NEW k \in Keys, DeleteObject(k)
      PROVE  CleanupInv'
  <2>1. server[k] \in Object /\ server[k] # Absent
    BY <1>3 DEF DeleteObject, TypeInv, TypeOK
  <2>2. Owned(Removed(server[k])) => Owned(server[k])
    BY <2>1, RemovedOwner DEF Owned
  <2> QED BY <1>3, <2>1, <2>2, RemovedOwner, UserWriteCleanup DEF DeleteObject
<1>4. ASSUME NEW k \in Keys, CreateObject(k)
      PROVE  CleanupInv'
  <2> DEFINE o == NewObject(k, "edited", "other")
  <2>1. o \in Object /\ o.owner = "other" /\ UserWrites(k, o)
    BY <1>4, NewObjectType DEF NewObject, CreateObject, TypeInv, TypeOK
  <2> HIDE DEF o
  <2> QED BY <2>1, UserWriteCleanup DEF Owned
<1>5. ASSUME NEW s, \/ ChangeCR("absent", "live", s) \/ ChangeCR("live", "live", s)
                    \/ ChangeCR("live", "deleting", s)
      PROVE  CleanupInv'
  BY <1>5, ChangeCRCleanup
<1> QED BY <1>1, <1>2, <1>3, <1>4, <1>5 DEF User

LEMMA DeliverCleanup ==
    ASSUME TypeInv, CleanupInv, NEW k \in Keys, Deliver(k)
    PROVE  CleanupInv'
<1>1. /\ UNCHANGED <<server, life, pc, cur, todo, pending, place, overlooked>>
      /\ informer' = [informer EXCEPT ![k] = server[k]]
  BY DEF Deliver, worker, memory
<1>2. \A j \in Keys : informer'[j] \in {informer[j], server[j]}
  BY <1>1 DEF TypeInv, TypeOK
<1>3. OwnedKeys' = OwnedKeys
  BY <1>1, SameOwned
<1>4. \A j \in OwnedKeys' : j[1] \in ClusterTasks => Owned(informer[j])'
  BY <1>2, <1>3 DEF CleanupInv, LegacyInv, OwnedKeys, Owned
<1> QED BY <1>1, <1>3, <1>4, FewerOwned

-----------------------------------------------------------------------------
(* The steps of the worker.                                                *)

\* A pass or a loop that ends leaves everything owned where it is.
LEMMA IdleCleanup ==
    ASSUME CleanupInv, server' = server, informer' = informer,
           UNCHANGED <<life, overlooked>>, pc' = "idle"
    PROVE  CleanupInv'
<1>1. OwnedKeys' = OwnedKeys
  BY SameOwned
<1> QED BY <1>1 DEF CleanupInv, LegacyInv, ProgressInv, Owned

\* The informer shows every owned ClusterTask to the list of a new cleanup.
LEMMA StartCleanup ==
    ASSUME TypeInv, CleanupInv, Start
    PROVE  CleanupInv'
<1>1. UNCHANGED <<server, informer, life>> /\ pc = "idle" /\ cur = Absent /\ cur' = cur
  BY DEF Start, cluster, objects, worker, TypeInv, TypeOK
<1>2. OwnedKeys' = OwnedKeys
  BY <1>1, SameOwned
<1>3. \A k \in OwnedKeys' : k[1] \in ClusterTasks => Owned(informer[k])'
  BY <1>1, <1>2 DEF CleanupInv, LegacyInv, Owned
<1>4. CASE life = "absent"
  <2>1. pc' = "idle" /\ overlooked' = overlooked
    BY <1>1, <1>4 DEF Start, worker
  <2> QED BY <1>1, <2>1, IdleCleanup
<1>5. CASE life = "live"
  <2>1. pc' \in {"idle", "reconcile"} /\ todo' \cap ClusterTasks = {}
    BY <1>5 DEF Start, Deployed
  <2>2. Absent \notin ClusterTasks
    BY ResourcesAssumption DEF Resources, TasksOperand
  <2> QED BY <1>1, <1>3, <1>5, <2>1, <2>2 DEF CleanupInv, LegacyInv, ProgressInv
<1>6. CASE life = "deleting"
  <2>1. pc' = "cleanup" /\ todo' = (Resources \ ClusterTasks) \cup DeprecatedClusterTasks
    BY <1>6 DEF Start
  <2>2. ASSUME NEW k \in OwnedKeys PROVE k[1] \in todo'
    <3>1. /\ k = <<k[1], k[2]>> /\ k[1] \in Resources
          /\ k[1] \in ClusterTasks => k[2] = NoNs /\ Owned(informer[k])
      BY DEF OwnedKeys, Keys, ClusterScoped, CleanupInv, LegacyInv
    <3> QED BY <2>1, <3>1 DEF DeprecatedClusterTasks
  <2> QED BY <1>1, <1>2, <1>3, <1>6, <2>1, <2>2 DEF CleanupInv, LegacyInv, ProgressInv
<1> QED BY <1>4, <1>5, <1>6 DEF Start

\* A pass that deploys has nothing to do with cleanups.
LEMMA ReconcileResourceCleanup ==
    ASSUME TypeInv, CleanupInv, NEW r \in Resources, ReconcileResource(r)
    PROVE  CleanupInv'
<1>1. /\ UNCHANGED <<server, informer, life, overlooked>> /\ pc = "reconcile"
      /\ todo' = todo \ {r} /\ r \in todo
      /\ (pc' = pc /\ cur' = cur) \/ (pc' = "write" /\ cur' = r)
  BY DEF ReconcileResource, cluster, objects
<1>2. OwnedKeys' = OwnedKeys
  BY <1>1, SameOwned
<1> QED BY <1>1, <1>2 DEF CleanupInv, LegacyInv, ProgressInv, Owned

\* The operator writes no ClusterTask, and only for a CR that is there.
LEMMA OperatorWriteCleanup ==
    ASSUME TypeInv, CleanupInv, pc = "write", Current \in Keys,
           NEW o \in Object, SetObject(Current, o), NextResource("reconcile"),
           UNCHANGED <<life, overlooked>>
    PROVE  CleanupInv'
<1>1. /\ \A j \in Keys \ {Current} :
            server'[j] = server[j] /\ informer'[j] = informer[j]
      /\ OwnedKeys' \subseteq OwnedKeys \cup {Current}
  <2> HIDE DEF Current
  <2> QED BY WriteOwned
<1>2. Current[1] = cur /\ cur \notin ClusterTasks
  BY DEF Current, CleanupInv, LegacyInv
<1>3. \A j \in OwnedKeys' : j[1] \in ClusterTasks => Owned(informer[j])'
  <2> SUFFICES ASSUME NEW j \in OwnedKeys', j[1] \in ClusterTasks
               PROVE  Owned(informer'[j])
    BY DEF Owned
  <2>1. j # Current /\ j \in OwnedKeys /\ j \in Keys
    BY <1>1, <1>2 DEF OwnedKeys
  <2>2. Owned(informer[j]) /\ informer'[j] = informer[j]
    BY <1>1, <2>1 DEF CleanupInv, LegacyInv
  <2> QED BY <2>2
<1>4. /\ pc' = "reconcile" /\ todo' = todo /\ cur' = Absent
      /\ Absent \notin ClusterTasks /\ life # "absent"
  BY ResourcesAssumption
     DEF NextResource, CleanupInv, ProgressInv, Resources, TasksOperand
<1> QED BY <1>3, <1>4 DEF CleanupInv, LegacyInv, ProgressInv

LEMMA CreateResourceCleanup ==
    ASSUME TypeInv, CleanupInv, NEW a, CreateResource(a)
    PROVE  CleanupInv'
<1> DEFINE o == NewObject(Current, "template", "cr")
<1>1. pc = "write" /\ UNCHANGED <<life, overlooked>>
  BY DEF CreateResource
<1>2. CASE a = "OK"
  <2>1. Current \in Keys /\ SetObject(Current, o) /\ NextResource("reconcile")
    BY <1>2 DEF CreateResource, MayFail, Current
  <2>2. o \in Object
    BY NewObjectType DEF TypeInv, TypeOK
  <2> HIDE DEF o
  <2> QED BY <1>1, <2>1, <2>2, OperatorWriteCleanup
<1>3. CASE a # "OK"
  <2>1. UNCHANGED <<server, informer>> /\ pc' = "idle"
    BY <1>3 DEF CreateResource, Abort, objects
  <2> QED BY <1>1, <2>1, IdleCleanup
<1> QED BY <1>2, <1>3

LEMMA UpdateResourceCleanup ==
    ASSUME TypeInv, CleanupInv, NEW a, UpdateResource(a)
    PROVE  CleanupInv'
<1> DEFINE o == NextVersion(Current, found, Mutated(Current, found))
<1>1. /\ pc = "write" /\ UNCHANGED <<life, overlooked>>
      /\ found \in Object /\ Current \in Keys
  BY DEF UpdateResource, TypeInv, TypeOK, CursorInv
<1>2. CASE a = "OK"
  <2>1. SetObject(Current, o) /\ NextResource("reconcile")
    BY <1>2 DEF UpdateResource, Current
  <2>2. o \in Object
    BY <1>1, MutatedFacts, NextVersionFacts
  <2> HIDE DEF o
  <2> QED BY <1>1, <2>1, <2>2, OperatorWriteCleanup
<1>3. CASE a # "OK"
  <2>1. UNCHANGED <<server, informer>> /\ pc' = "idle"
    BY <1>3 DEF UpdateResource, Abort, objects
  <2> QED BY <1>1, <2>1, IdleCleanup
<1> QED BY <1>2, <1>3

\* What is the CR's under a name is passed over unless the lookup shows it, and
\* then it is deleted next or found pending.
LEMMA CleanupResourceCleanup ==
    ASSUME TypeInv, CleanupInv, NEW r \in Resources, CleanupResource(r)
    PROVE  CleanupInv'
<1> DEFINE at == <<r, place[r]>>
           o == Cached(at)
<1>1. /\ UNCHANGED <<server, informer, life, place>>
      /\ pc = "cleanup" /\ todo' = todo \ {r}
      /\ overlooked' = overlooked \cup Overlooked(r)
  BY DEF CleanupResource, cluster, objects, memory
<1>2. OwnedKeys' = OwnedKeys
  BY <1>1, SameOwned
<1>3. \A k \in OwnedKeys \ overlooked' : k[1] = r => k = at /\ Owned(o)
  <2> SUFFICES ASSUME NEW k \in OwnedKeys, k \notin overlooked', k[1] = r
               PROVE  k = at /\ Owned(o)
    OBVIOUS
  <2>1. k[2] = place[r] /\ Owned(informer[k]) /\ k \in Keys
    BY <1>1 DEF Overlooked, OwnedKeys
  <2>2. k = at
    BY <2>1 DEF Keys
  <2> QED BY <2>1, <2>2 DEF Cached
<1>4. CASE pc' = "delete" /\ cur' = r /\ pending' = pending
  <2>1. Current' = at
    BY <1>1, <1>4 DEF Current
  <2> HIDE DEF at, o
  <2> QED BY <1>1, <1>2, <1>3, <1>4, <2>1 DEF CleanupInv, LegacyInv, ProgressInv, Owned
<1>5. CASE pending' = (pending \/ Owned(o)) /\ pc' = pc
  <2> HIDE DEF at, o
  <2>1. LegacyInv'
    BY <1>1, <1>2, <1>5 DEF CleanupInv, LegacyInv, Owned
  <2>2. ~pending' => ~pending /\ ~Owned(o)
    BY <1>5
  <2> QED BY <1>1, <1>2, <1>3, <1>5, <2>1, <2>2 DEF CleanupInv, ProgressInv
<1> QED BY <1>4, <1>5 DEF CleanupResource

\* What was deleted is pending; what is not found is nobody's.
LEMMA DeleteResourceCleanup ==
    ASSUME TypeInv, CleanupInv, NEW a, DeleteResource(a)
    PROVE  CleanupInv'
<1>1. /\ pc = "delete" /\ UNCHANGED <<life, overlooked>>
      /\ Current \in Keys /\ life = "deleting"
      /\ server[Current] \in Object \cup {Absent}
  BY DEF DeleteResource, TypeInv, TypeOK, CursorInv, CleanupInv, ProgressInv
<1>2. CASE a = "OK"
  <2>1. /\ SetObject(Current, Removed(server[Current]))
        /\ pending' /\ pc' = "cleanup" /\ server[Current] \in Object
        /\ server[Current] # Absent
    BY <1>1, <1>2 DEF DeleteResource, NextResource, MayFail, Current
  <2>2. \A j \in OwnedKeys' : j[1] \in ClusterTasks => Owned(informer[j])'
    <3> DEFINE o == Removed(server[Current])
    <3>1. /\ o \in Object \cup {Absent}
          /\ Owned(o) => Owned(server[Current])
      BY <2>1, RemovedOwner DEF Owned
    <3> HIDE DEF Current, o
    <3> QED BY <1>1, <2>1, <3>1, KeptByWrite DEF o
  <2> QED BY <1>1, <2>1, <2>2 DEF CleanupInv, LegacyInv, ProgressInv
<1>3. CASE a = "NotFound"
  <2>1. /\ UNCHANGED <<server, informer, pending, todo>>
        /\ pc' = "cleanup" /\ server[Current] = Absent
    BY <1>3 DEF DeleteResource, NextResource, MayFail, Current, objects
  <2>2. OwnedKeys' = OwnedKeys /\ Current \notin OwnedKeys
    BY <2>1, SameOwned DEF OwnedKeys, Owned
  <2> QED BY <1>1, <2>1, <2>2 DEF CleanupInv, LegacyInv, ProgressInv, Owned
<1>4. CASE a = "Error"
  <2>1. UNCHANGED <<server, informer>> /\ pc' = "idle"
    BY <1>4 DEF DeleteResource, Abort, objects
  <2> QED BY <1>1, <2>1, IdleCleanup
<1> QED BY <1>2, <1>3, <1>4 DEF DeleteResource

\* The CR leaves when the loop is through and nothing was pending.
LEMMA FinishCleanupCleanup ==
    ASSUME CleanupInv, FinishReconcile \/ FinishCleanup
    PROVE  CleanupInv'
<1>1. /\ UNCHANGED <<server, informer, overlooked>> /\ pc' = "idle" /\ todo = {}
      /\ pc \in {"reconcile", "cleanup"}
      /\ life' = life \/ (pc = "cleanup" /\ ~pending)
  BY DEF FinishReconcile, FinishCleanup, cluster, objects
<1>2. OwnedKeys' = OwnedKeys
  BY <1>1, SameOwned
<1> QED BY <1>1, <1>2 DEF CleanupInv, LegacyInv, ProgressInv, Owned

\* A process that starts knows what is stored and has no cleanup under way.
LEMMA RebootCleanup ==
    ASSUME CleanupInv, Reboot
    PROVE  CleanupInv'
<1>1. /\ UNCHANGED <<server, life, overlooked>> /\ pc' = "idle" /\ informer' = server
  BY DEF Reboot
<1>2. OwnedKeys' = OwnedKeys
  BY <1>1, SameOwned
<1> QED BY <1>1, <1>2 DEF CleanupInv, LegacyInv, ProgressInv, OwnedKeys, Owned

LEMMA WorkerCleanup ==
    ASSUME TypeInv, CleanupInv, Worker
    PROVE  CleanupInv'
BY ReconcileResourceCleanup, CleanupResourceCleanup, CreateResourceCleanup,
   UpdateResourceCleanup, DeleteResourceCleanup, FinishCleanupCleanup, RebootCleanup
   DEF Worker, CleanupPanics

\* What an older operator left of a CR that is there are ClusterTasks.
LEMMA InitCleanup == Init => CleanupInv
<1> SUFFICES ASSUME Init PROVE CleanupInv
  OBVIOUS
<1>1. informer = server /\ pc = "idle"
  BY DEF Init
<1>2. life = "absent" => OwnedKeys = {}
  BY DEF Init, Legacy, OwnedKeys, Owned
<1> QED BY <1>1, <1>2 DEF CleanupInv, LegacyInv, ProgressInv, OwnedKeys

LEMMA NextCleanup ==
    ASSUME TypeInv, CleanupInv, [Next]_vars
    PROVE  CleanupInv'
<1>1. CASE UNCHANGED vars
  <2>1. UNCHANGED <<server, informer, life, pc, cur, todo, pending, place, overlooked>>
    BY <1>1 DEF vars, cluster, objects, worker, memory
  <2>2. OwnedKeys' = OwnedKeys
    BY <2>1, SameOwned
  <2> QED BY <2>1, <2>2, FewerOwned DEF CleanupInv, LegacyInv, Owned
<1> QED BY <1>1, StartCleanup, WorkerCleanup, UserCleanup, DeliverCleanup, RebootCleanup
        DEF Next, Restart

\* A CR that has left leaves nothing behind but what its last cleanup passed
\* over, however informers lag, calls fail, objects linger, users interfere and
\* the process crashes or panics in the middle of a cleanup (Cleanup, cleanup).
THEOREM OnlyOverlookedLeftAlways == Spec => []OnlyOverlookedLeft
<1>1. Init => TypeInv /\ CleanupInv
  BY InitType, InitCleanup
<1>2. TypeInv /\ CleanupInv /\ [Next]_vars => (TypeInv /\ CleanupInv)'
  BY NextType, NextCleanup
<1>3. CleanupInv => OnlyOverlookedLeft
  BY DEF CleanupInv, ProgressInv, OnlyOverlookedLeft, OwnedKeys
<1> QED BY <1>1, <1>2, <1>3, PTL DEF Spec
=============================================================================
